---------------------------- MODULE Spec2Model ----------------------------
(***************************************************************************)
(* The Genie chat widget of script.js (class GenieChat): one widget        *)
(* instance, the browser's event loop that runs its handlers to their next *)
(* await, the relay behind fetch('/api/genie'), and localStorage.          *)
(*                                                                         *)
(* A text is a sequence of runs [c, n]: n copies of the character c.       *)
(* A step of the model is one turn of the event loop: a DOM event handler, *)
(* or the continuation of an async function after the promise it awaits    *)
(* settles.  The only place where a handler is cut in two is between       *)
(* addMessage and the first callAPI of sendMessage (pc "entered"); no      *)
(* other handler runs in between.                                          *)
(***************************************************************************)
EXTENDS Integers, Sequences, FiniteSets, TLC

VARIABLES
    conversationId,   \* this.conversationId
    messages,         \* this.messages
    messageDivs,      \* the .genie-message elements in the messages container
    isLoading,        \* this.isLoading
    lastQuery,        \* this.lastQuery
    inputValue,       \* this.elements.input.value
    storage,          \* localStorage['GENIE_CHAT_STATE']
    errorDivs,        \* the .genie-error notices in the messages container
    typingIndicators, \* number of #genie-typing-indicator elements in the DOM
    calls,            \* the sendMessage invocations that have not returned
    nsub,             \* number of sendMessage invocations so far
    nextConv,         \* conversations the remote service has issued
    nextMsg,          \* messages the remote service has issued
    now,              \* Date.now(): it advances with every Turn created
    closed,           \* messages whose polling has ended: COMPLETED, FAILED, timed out
    loads,            \* the times the page has been loaded
    invocations,      \* the last two invocations of the relay's function
    ev                \* the event-loop turn that produced this state

vars ==
    <<conversationId, messages, messageDivs, isLoading, lastQuery, inputValue,
      storage, errorDivs, typingIndicators, calls, nsub, nextConv, nextMsg, now,
      closed, loads, invocations, ev>>

NULL == "null"

\* ------------------------------------------------------------------ bounds

\* Spec: sendMessage is invoked while the history holds fewer Turns than
\* MaxHistory, and the remote service answers at most MaxPending polls of one
\* message with a status that is not terminal.
MaxHistory == 3
MaxPending == 1
\* SpecPolling: the same, with no limit on the polls.
PollingHistory == 1
\* SpecFlood: at most FloodCalls invocations of sendMessage are in flight.
FloodCalls == 2
\* SpecExhaust: one invocation of sendMessage at a time, with no limit on the
\* polls, while the history holds fewer Turns than ExhaustHistory.
ExhaustHistory == 2

\* --------------------------------------------------------------- constants

MinLength == 5
MaxLength == 1000
maxAttempts == 30
KeepLast == 20

\* ------------------------------------------------------------------- texts

Ws == " "

RECURSIVE TextLength(_)
TextLength(t) == IF t = <<>> THEN 0 ELSE Head(t).n + TextLength(Tail(t))

RECURSIVE TrimStart(_)
TrimStart(t) ==
    IF t # <<>> /\ (Head(t).c = Ws \/ Head(t).n = 0) THEN TrimStart(Tail(t)) ELSE t

RECURSIVE TrimEnd(_)
TrimEnd(t) ==
    IF t # <<>> /\ (t[Len(t)].c = Ws \/ t[Len(t)].n = 0)
    THEN TrimEnd(SubSeq(t, 1, Len(t) - 1))
    ELSE t

Trim(t) == TrimEnd(TrimStart(t))

R(c, n) == [c |-> c, n |-> n]

\* data-query of a .genie-example-btn button.
ExampleQuery ==
    <<R("W", 3), R(Ws, 1), R("w", 3), R(Ws, 1), R("t", 3), R(Ws, 1), R("m", 4),
      R(Ws, 1), R("c", 14)>>

ExampleQueries == { ExampleQuery }

\* What the user types into the input box: the example query after a space,
\* texts of 4 and of 5 characters between spaces, and texts of 1000 and of
\* 1001 characters.
TypedQueries == { <<R(Ws, 1)>> \o ExampleQuery }

ShortTexts ==
    { <<R(Ws, 2), R("a", 4), R(Ws, 1)>>,
      <<R(Ws, 1), R("a", 5)>> }

LongTexts ==
    { <<R("b", 1000), R(Ws, 1)>>,
      <<R("b", 1001)>> }



\* ---------------------------------------------------------------- messages
\* An error message is a sequence of words; includes() looks for a contiguous
\* run of words.

includes(message, needle) ==
    \E i \in 1..(Len(message) - Len(needle) + 1) :
        SubSeq(message, i, i + Len(needle) - 1) = needle

MsgTimeout ==
    <<"Query", "timeout", "-", "Genie", "took", "too", "long", "to", "respond.",
      "This", "might", "be", "a", "complex", "query.">>
MsgQueryFailed == <<"Query", "failed">>
MsgApiFailed == <<"API", "request", "failed">>
MsgInvalidResponse ==
    <<"Invalid", "response", "from", "server.", "The", "API", "may", "be",
      "misconfigured", "or", "experiencing", "issues.">>
MsgUnavailable ==
    <<"Service", "temporarily", "unavailable.", "The", "function", "may", "be",
      "starting", "up", "or", "experiencing", "high", "load.", "Please", "try",
      "again", "in", "a", "moment.">>
MsgServer500 ==
    <<"Server", "error.", "Check", "the", "Azure", "Function", "logs", "for",
      "details.">>
MsgServerError(status) == <<"Server", "error:", status>>
\* What the browser puts in the TypeError of a fetch that could not connect.
MsgFailedToFetch == <<"Failed", "to", "fetch">>
\* The SyntaxError of response.json() on a body that is not JSON.
MsgJsonSyntax == <<"Unexpected", "token", "<", "in", "JSON", "at", "position", "0">>
\* The TypeError of reading a property of undefined.
MsgTypeError == <<"Cannot", "read", "properties", "of", "undefined">>

\* The TypeError of content.includes('<') on a value that is not a string.
MsgNotAFunction == <<"content.includes", "is", "not", "a", "function">>

\* The messages shown by showError.
DisplayAuth == <<"Authentication failed. Please check your Databricks credentials.">>
DisplayRateLimit == <<"Too many requests. Please wait a moment and try again.">>
DisplayTimeout == <<"Query took too long to complete. Try a simpler question.">>
DisplayNetwork == <<"Could not connect to Genie. Check your internet connection.">>
DisplayDataAccess == <<"Data access error">>
DisplaySql == <<"SQL execution error">>

\* ------------------------------------------------------------ the instance
\* The fields of the widget, its DOM and localStorage as one record, so that
\* the methods compose in the order the code calls them.

Self ==
    [conversationId |-> conversationId, messages |-> messages,
     messageDivs |-> messageDivs, isLoading |-> isLoading, storage |-> storage,
     errorDivs |-> errorDivs, typingIndicators |-> typingIndicators, now |-> now]

\* slice(0, 20) for slice(-20).
SliceLast_First(s, k) == SubSeq(s, 1, IF Len(s) < k THEN Len(s) ELSE k)

\* Array.prototype.slice(-k)
SliceLast(s, k) == IF Len(s) <= k THEN s ELSE SubSeq(s, Len(s) - k + 1, Len(s))

\* A Turn as JSON.stringify writes it: the values of role, content and
\* timestamp, or those of role and timestamp for a Turn that has no content.
stringifyTurn(turn) ==
    IF "content" \in DOMAIN turn THEN <<turn.role, turn.content, turn.timestamp>>
    ELSE <<turn.role, turn.timestamp>>

\* JSON.stringify(state): null is written as null and a string in quotes, an
\* array keeps its order.
stringify(state) ==
    [conversationId |-> IF state.conversationId = NULL THEN <<"null">>
                        ELSE <<"string", state.conversationId>>,
     messages |-> [k \in 1..Len(state.messages) |-> stringifyTurn(state.messages[k])]]

\* saveState that writes the history and leaves the stored conversationId.
saveState_Partial(s) ==
    [s EXCEPT !.storage =
        {[stringify([conversationId |-> s.conversationId,
                     messages |-> SliceLast(s.messages, KeepLast)])
             EXCEPT !.conversationId =
                 IF s.storage = {} THEN <<"null">>
                 ELSE (CHOOSE d \in s.storage : TRUE).conversationId]}]

\* localStorage holds no document (None) or one document (Some).
saveState(s) ==
    [s EXCEPT !.storage =
        {stringify([conversationId |-> s.conversationId,
                    messages |-> SliceLast(s.messages, KeepLast)])}]

Turn(role, content, timestamp) ==
    [role |-> role, content |-> content, timestamp |-> timestamp]

\* content.includes('<').  The content of a user Turn is a text; that of an
\* assistant Turn is a notice of the widget (no '<' in it), a narrative (a
\* sequence of characters), or the markup of a table or of a SQL block, which
\* starts with '<div'.
includesLt(role, content) ==
    IF role = "user"
    THEN \E k \in DOMAIN content : content[k].c = "<" /\ content[k].n > 0
    ELSE IF "notice" \in DOMAIN content THEN FALSE
    ELSE IF "text" \in DOMAIN content
         THEN \E k \in DOMAIN content.text : content.text[k] = "<"
    ELSE TRUE

\* The element made for a Turn: its content is assigned to innerHTML when it
\* holds a '<', to textContent when it does not.
messageDiv(role, content) ==
    [role |-> role, content |-> content,
     via |-> IF includesLt(role, content) THEN "innerHTML" ELSE "textContent"]

\* addMessage that pushes the Turn and does not save.
addMessage_NoSave(s, role, content) ==
    [s EXCEPT !.messageDivs = Append(@, messageDiv(role, content)),
              !.messages = Append(@, Turn(role, content, s.now)), !.now = @ + 1]

addMessage(s, role, content) ==
    saveState([s EXCEPT !.messageDivs = Append(@, messageDiv(role, content)),
                        !.messages = Append(@, Turn(role, content, s.now)),
                        !.now = @ + 1])

showTypingIndicator(s) == [s EXCEPT !.typingIndicators = @ + 1]

hideTypingIndicator(s) ==
    IF s.typingIndicators > 0 THEN [s EXCEPT !.typingIndicators = @ - 1] ELSE s

displayMessage(message) ==
    IF includes(message, <<"401">>) \/ includes(message, <<"403">>) THEN DisplayAuth
    ELSE IF includes(message, <<"429">>) THEN DisplayRateLimit
    ELSE IF includes(message, <<"timeout">>) THEN DisplayTimeout
    ELSE IF includes(message, <<"fetch">>) \/ includes(message, <<"network">>)
         THEN DisplayNetwork
    ELSE IF includes(message, <<"Azure", "storage">>)
            \/ includes(message, <<"not", "authorized">>) THEN DisplayDataAccess
    ELSE IF includes(message, <<"SQL_EXECUTION_EXCEPTION">>) THEN DisplaySql
    ELSE message

\* A notice without the Retry button.
showError_NoRetry(s, message, canRetry, query) ==
    [s EXCEPT !.errorDivs =
        Append(@, [display |-> displayMessage(message), retry |-> FALSE,
                   query |-> query])]

\* query: the text of the submission that raised the notice (not read by the
\* code: the Retry listener reads this.lastQuery).
showError(s, message, canRetry, query) ==
    [s EXCEPT !.errorDivs =
        Append(@, [display |-> displayMessage(message), retry |-> canRetry,
                   query |-> query])]

\* ----------------------------------------------------------------- callAPI
\* The outcome of fetch('/api/genie'): the promise rejects, or it resolves to a
\* response with a status, a content type and a body.  NoBody is a body that
\* is not JSON.  An error that is absent or empty is <<>> (both are falsy).

NoBody == [success |-> FALSE, data |-> NULL, error |-> <<>>]

FetchRejected ==
    [rejected |-> TRUE, status |-> "0", contentJson |-> FALSE, parses |-> FALSE,
     body |-> NoBody]

FetchSuccess(data) ==
    [rejected |-> FALSE, status |-> "200", contentJson |-> TRUE, parses |-> TRUE,
     body |-> [success |-> TRUE, data |-> data, error |-> <<>>]]

\* A catch block that answers 200.
RelayFailure_Ok(message) ==
    [rejected |-> FALSE, status |-> "200", contentJson |-> TRUE, parses |-> TRUE,
     body |-> [success |-> FALSE, data |-> NULL, error |-> message]]

\* The relay's catch block: status 500, {success: false, error: error.message}.
RelayFailure(message) ==
    [rejected |-> FALSE, status |-> "500", contentJson |-> TRUE, parses |-> TRUE,
     body |-> [success |-> FALSE, data |-> NULL, error |-> message]]

\* The message of the relay's Error for an upstream response that is not ok.
UpstreamFailed(action, status, errorText) ==
    (CASE action = "start-conversation" -> <<"Failed", "to", "start", "conversation:">>
       [] action = "send-message" -> <<"Failed", "to", "send", "message:">>
       [] action = "poll-result" -> <<"Failed", "to", "poll", "result:">>)
    \o <<status>> \o errorText

Thrown(message) == [threw |-> TRUE, message |-> message, data |-> NULL]
Returned(data) == [threw |-> FALSE, message |-> <<>>, data |-> data]

\* The catch block of callAPI.
Rethrow(message) ==
    IF includes(message, <<"JSON">>) THEN Thrown(MsgInvalidResponse)
    ELSE Thrown(message)

callAPI(response) ==
    IF response.rejected THEN Rethrow(MsgFailedToFetch)
    ELSE IF response.status # "200" THEN
        IF response.contentJson THEN
            IF ~response.parses THEN Rethrow(MsgJsonSyntax)
            ELSE IF response.body.error # <<>> THEN Rethrow(response.body.error)
            ELSE Rethrow(MsgServerError(response.status))
        ELSE IF response.status = "503" THEN Rethrow(MsgUnavailable)
        ELSE IF response.status = "500" THEN Rethrow(MsgServer500)
        ELSE Rethrow(MsgServerError(response.status))
    ELSE IF ~response.parses THEN Rethrow(MsgJsonSyntax)
    ELSE IF ~response.body.success THEN
        IF response.body.error # <<>> THEN Rethrow(response.body.error)
        ELSE Rethrow(MsgApiFailed)
    ELSE Returned(response.body.data)

\* The failure a call meets: the remote service answers 429 and the relay
\* wraps it.
FetchFailures(action) ==
    { RelayFailure(UpstreamFailed(action, "429", <<"Too", "Many", "Requests">>)) }

\* What the remote service writes in the body of an answer that is not ok: a
\* plain sentence, a text that holds the digits 403 (a word of a message
\* stands for its characters wherever they are in the text), and a text
\* that holds the letters JSON.
ErrorTexts ==
    { <<"request", "refused">>,
      <<"request", "refused,", "id", "403", "logged">>,
      <<"body", "is", "not", "JSON">> }

\* The remote service answers 401, 403 or 429 and the relay wraps the answer.
StatusFailures(action) ==
    { RelayFailure(UpstreamFailed(action, status, text)) :
         status \in {"401", "403", "429"}, text \in ErrorTexts }

\* An answer 503 of the host that is not JSON.
HostUnavailable ==
    [rejected |-> FALSE, status |-> "503", contentJson |-> FALSE, parses |-> FALSE,
     body |-> NoBody]

\* An answer 200 with {success: false} and no error text.
Unsuccessful ==
    [rejected |-> FALSE, status |-> "200", contentJson |-> TRUE, parses |-> TRUE,
     body |-> NoBody]

\* The failures of a call by kind: an HTTP error of the relay, an HTTP error
\* of the host, success: false, and a relay that cannot be reached.
EveryFailure(action) ==
    FetchFailures(action) \cup {HostUnavailable, Unsuccessful, FetchRejected}

RelayActions == {"start-conversation", "send-message", "poll-result"}

\* ----------------------------------------------------------- displayResult
\* A field of the payload that may be missing or null is a set: {} when it is
\* absent, {v} when it holds v.

None == {}
Some(v) == {v}
the(o) == CHOOSE v \in o : TRUE

escapeChar(ch) ==
    CASE ch = "<" -> "&lt;"
      [] ch = ">" -> "&gt;"
      [] ch = "&" -> "&amp;"
      [] OTHER -> ch

\* A display string is a sequence of characters.
escapeHtml(text) == [i \in 1..Len(text) |-> escapeChar(text[i])]

Threw(message) == [threw |-> TRUE, message |-> message, html |-> <<>>]

\* A cell of data_array: a string, a number, or null.
Str(chars) == [type |-> "string", value |-> chars]
Num(n) == [type |-> "number", value |-> n]
Null == [type |-> "null", value |-> <<>>]

DigitChars == <<"0", "1", "2", "3", "4", "5", "6", "7", "8", "9">>

RECURSIVE Digits(_)
Digits(n) ==
    IF n < 10 THEN <<DigitChars[n + 1]>>
    ELSE Digits(n \div 10) \o <<DigitChars[(n % 10) + 1]>>

\* String(cell) of a string and of a number that is not negative.
String(cell) == IF cell.type = "number" THEN Digits(cell.value) ELSE cell.value

\* A null cell shown as the empty string.
displayValue_Empty(cell) == IF cell.type = "null" THEN <<>> ELSE String(cell)

\* cell === null ? 'NULL' : String(cell)
displayValue(cell) ==
    IF cell.type = "null" THEN <<"N", "U", "L", "L">> ELSE String(cell)

\* The row of a table: <td> elements in the order of the cells.
tableRow(row) == [c \in 1..Len(row) |-> escapeHtml(displayValue(row[c]))]

\* The body of a table that stops after the first row.
tableBody_FirstRow(data_array) == <<tableRow(data_array[1])>>

\* data_array.forEach((row, rowIndex) => ...): <tr> elements in the order of
\* the rows.
tableBody(data_array) == [r \in 1..Len(data_array) |-> tableRow(data_array[r])]

\* Called with a data_array that holds at least one row.  schema.columns of a
\* missing schema, and schema.columns[colIndex].type of a cell beyond the
\* columns, throw a TypeError.
renderDataTable(queryResult) ==
    LET data_array == the(queryResult.data_array)
        schema == queryResult.schema
    IN  IF schema = None \/ the(schema).columns = None THEN Threw(MsgTypeError)
        ELSE
          LET columns == the(the(schema).columns)
          IN  IF \E r \in 1..Len(data_array) : Len(data_array[r]) > Len(columns)
              THEN Threw(MsgTypeError)
              ELSE [threw |-> FALSE, message |-> <<>>,
                    html |->
                      [thead |-> [c \in 1..Len(columns) |-> escapeHtml(columns[c].name)],
                       tbody |-> tableBody(data_array),
                       truncated |-> queryResult.truncated]]

NoAttachmentsNotice == [notice |-> "Genie processed your query but returned no data."]
NoDataNotice ==
    [notice |->
       "Query executed but no data was returned. Check browser console for details."]

\* The last attachment is taken for the first.
firstAttachment_Last(attachments) == attachments[Len(attachments)]

\* const attachment = result.attachments[0];
firstAttachment(attachments) == attachments[1]

\* The notice is appended after every result.
needsNotice_Always(hasData) == TRUE

\* if (!hasData)
needsNotice(hasData) == ~hasData

\* A narrative that is a string is [content |-> {chars}]; one that is a
\* number has a field typeof beside it, and addMessage throws on it at
\* content.includes before it appends anything.
isString(text) == "typeof" \notin DOMAIN text

\* The instance after displayResult(result), and whether it threw; when it
\* threw, s is the instance at the throw.
\* result.attachments missing and result.attachments empty are both <<>>.
displayResult(s, result) ==
    IF Len(result.attachments) = 0
    THEN [s |-> addMessage(s, "assistant", NoAttachmentsNotice), threw |-> FALSE,
          message |-> <<>>]
    ELSE
      LET attachment == firstAttachment(result.attachments)
          hasResult == attachment.query # None
                       /\ the(attachment.query).query_result # None
          queryResult == the(the(attachment.query).query_result)
          hasData == /\ hasResult
                     /\ queryResult.data_array # None
                     /\ Len(the(queryResult.data_array)) > 0
          table == renderDataTable(queryResult)
      IN  IF hasData /\ table.threw
          THEN [s |-> s, threw |-> TRUE, message |-> table.message]
          ELSE
            LET s1 == IF hasData THEN addMessage(s, "assistant", table.html) ELSE s
                hasText == attachment.text # None /\ the(attachment.text).content # None
                           /\ the(the(attachment.text).content) # <<>>
                s2 == IF hasText
                      THEN addMessage(s1, "assistant",
                                      [text |-> the(the(attachment.text).content)])
                      ELSE s1
                s3 == IF attachment.query # None /\ the(attachment.query).query # None
                         /\ the(the(attachment.query).query) # <<>>
                      THEN addMessage(s2, "assistant",
                             [sql |-> escapeHtml(the(the(attachment.query).query))])
                      ELSE s2
                s4 == IF needsNotice(hasData) THEN addMessage(s3, "assistant", NoDataNotice)
                      ELSE s3
            IN  IF hasText /\ ~isString(the(attachment.text))
                THEN [s |-> s1, threw |-> TRUE, message |-> MsgNotAFunction]
                ELSE [s |-> s4, threw |-> FALSE, message |-> <<>>]

\* ----------------------------------------------------- the remote service

NonTerminalStatuses ==
    {"EXECUTING", "FILTERING_CONTEXT", "QUERY_RESULT_EXPIRED", "PENDING", NULL}

PollData(status, attachments, error) ==
    [status |-> status, attachments |-> attachments, error |-> error]

TableAttachment(schema) ==
    [query |-> Some(
        [query |-> Some(<<"S", "<", "1">>),
         query_result |-> Some(
            [data_array |-> Some(<< <<Str(<<"a", "<">>), Null>> >>),
             schema |-> schema, row_count |-> 1, truncated |-> FALSE])]),
     text |-> Some([content |-> Some(<<"o", "k">>)])]

TwoColumns ==
    [columns |-> Some(<<[name |-> <<"d", "&">>, type |-> "STRING"],
                        [name |-> <<"w">>, type |-> "LONG"]>>)]

\* The table of runAllTests' example: three rows of a driver and a number of
\* wins, the driver of the last row null.
ThreeRows ==
    << <<Str(<<"L", "&", "H">>), Num(103)>>,
       <<Str(<<"M", "<", "S">>), Num(91)>>,
       <<Null, Num(0)>> >>

\* An attachment that holds a tabular block and nothing else.
TableOnly(rows) ==
    [query |-> Some(
        [query |-> None,
         query_result |-> Some(
            [data_array |-> Some(rows), schema |-> Some(TwoColumns),
             row_count |-> Len(rows), truncated |-> FALSE])]),
     text |-> None]

CompletedResults ==
    { PollData("COMPLETED", <<TableAttachment(Some(TwoColumns))>>, None),
      PollData("COMPLETED", <<TableAttachment(None)>>, None),
      PollData("COMPLETED", <<TableOnly(ThreeRows)>>, None) }

\* An attachment that holds a narrative and nothing else.
NarrativeOnly(chars) == [query |-> None, text |-> Some([content |-> Some(chars)])]

\* An attachment that holds the generated query and no result.
QueryOnly(chars) ==
    [query |-> Some([query |-> Some(chars), query_result |-> None]), text |-> None]

\* An attachment that holds a narrative and a tabular block of no rows.
NoRows(chars) ==
    [query |-> Some(
        [query |-> None,
         query_result |-> Some(
            [data_array |-> Some(<<>>), schema |-> Some(TwoColumns),
             row_count |-> 0, truncated |-> FALSE])]),
     text |-> Some([content |-> Some(chars)])]

\* An attachment with no tabular block, no narrative and no generated query.
Bare == [query |-> None, text |-> None]

\* An attachment that holds a narrative and the generated query.
NarrativeAndQuery(chars) ==
    [query |-> Some([query |-> Some(<<"S", "<", "1">>), query_result |-> None]),
     text |-> Some([content |-> Some(chars)])]

\* An attachment that holds a tabular block and a narrative that is the
\* number n, not a string.
TableAndNumber(n) ==
    [query |-> TableOnly(ThreeRows).query,
     text |-> Some([content |-> Some(Digits(n)), typeof |-> "number"])]

\* COMPLETED messages by what their first attachment holds; the last three
\* have a second attachment.
AttachmentResults ==
    { PollData("COMPLETED", <<>>, None),
      PollData("COMPLETED", <<Bare>>, None),
      PollData("COMPLETED", <<NarrativeOnly(<<"o", "k">>)>>, None),
      PollData("COMPLETED", <<NarrativeOnly(<<"<", "i", ">">>)>>, None),
      PollData("COMPLETED", <<QueryOnly(<<"S", "<", "1">>)>>, None),
      PollData("COMPLETED", <<NoRows(<<"o", "k">>)>>, None),
      PollData("COMPLETED", <<TableOnly(ThreeRows)>>, None),
      PollData("COMPLETED", <<TableAttachment(Some(TwoColumns))>>, None),
      PollData("COMPLETED", <<NarrativeAndQuery(<<"o", "k">>)>>, None),
      PollData("COMPLETED", <<TableAndNumber(42)>>, None),
      PollData("COMPLETED", <<Bare, TableOnly(ThreeRows)>>, None),
      PollData("COMPLETED", <<NarrativeOnly(<<"o", "k">>), QueryOnly(<<"S", "<", "1">>)>>,
               None),
      PollData("COMPLETED", <<TableOnly(ThreeRows), NarrativeOnly(<<"o", "k">>)>>, None) }

\* result.error of a FAILED message: an object (with or without its own error
\* text), or a string.
FailedResults ==
    { PollData("FAILED", <<>>,
               Some([type |-> "string", error |-> <<>>,
                     value |-> <<"SQL_EXECUTION_EXCEPTION">>, json |-> <<>>])) }

\* FAILED messages by the form of result.error: an object with its own error
\* text, a string, an object without error text (it is serialized), and none.
FailedDetails ==
    { PollData("FAILED", <<>>,
               Some([type |-> "object", error |-> <<"Statement", "timeout", "exceeded">>,
                     value |-> <<>>, json |-> <<"{", "code", ":", "7", "}">>])),
      PollData("FAILED", <<>>,
               Some([type |-> "string", error |-> <<>>,
                     value |-> <<"Table", "not", "found">>, json |-> <<>>])),
      PollData("FAILED", <<>>,
               Some([type |-> "object", error |-> <<>>, value |-> <<>>,
                     json |-> <<"{", "code", ":", "401", "}">>])),
      PollData("FAILED", <<>>, None) }

\* ------------------------------------------------------------ sendMessage
\* A call is one invocation of sendMessage that has not returned: where it is
\* suspended, the request it awaits, and the locals of pollForResult.
\*   entered    addMessage done, the first callAPI not yet made
\*   awaitStart awaiting callAPI('start-conversation')
\*   awaitSend  awaiting callAPI('send-message')
\*   waiting    awaiting the setTimeout of pollForResult
\*   awaitPoll  awaiting callAPI('poll-result')
\* sends and polls count the send-message and poll-result requests of the
\* call, waited adds up the delays of its timers that have fired, via is the
\* listener that made the call, turn the timestamp of its user Turn, issuedIn
\* the conversationId of the send-message request that was answered with
\* messageId.

NoRequest ==
    [action |-> "none", conversationId |-> NULL, messageId |-> NULL, content |-> <<>>]

Request(action, cid, mid, content) ==
    [action |-> action, conversationId |-> cid, messageId |-> mid, content |-> content]

NewCall(id, content, via, timestamp) ==
    [id |-> id, content |-> content, via |-> via, turn |-> timestamp,
     pc |-> "entered", request |-> NoRequest, sends |-> 0,
     messageId |-> NULL, attempt |-> 0, delay |-> 0, waited |-> 0, polls |-> 0,
     issuedIn |-> NULL]

\* ev: the listener or continuation that ran (op), the call it started or
\* resumed (id, 0 for none), the alert it raised, what callAPI gave the
\* continuation (resp), the status of a poll-result payload (status),
\* whether and how the call returned in this turn (returned), the
\* poll-result requests the call has made (polls), the payload of a
\* poll-result response (result), and the response that made callAPI throw
\* (response).
NoResult == PollData("none", <<>>, None)

NoResponse ==
    [rejected |-> FALSE, status |-> "none", contentJson |-> FALSE, parses |-> FALSE,
     body |-> NoBody]

NoEvent ==
    [op |-> "init", id |-> 0, alert |-> "none", resp |-> "none", status |-> "none",
     returned |-> "none", polls |-> 0, result |-> NoResult, response |-> NoResponse]

Event(op, id) == [NoEvent EXCEPT !.op = op, !.id = id]

Commit(s) ==
    /\ conversationId' = s.conversationId
    /\ messages' = s.messages
    /\ messageDivs' = s.messageDivs
    /\ isLoading' = s.isLoading
    /\ storage' = s.storage
    /\ errorDivs' = s.errorDivs
    /\ typingIndicators' = s.typingIndicators
    /\ now' = s.now

RemoveAt(seq, i) == SubSeq(seq, 1, i - 1) \o SubSeq(seq, i + 1, Len(seq))

\* No handler is in the middle of its synchronous part.
Quiescent == \A i \in DOMAIN calls : calls[i].pc # "entered"

\* sendMessage, from its first line to addMessage('user', content).
SendMessageEnter(s, content) ==
    addMessage([s EXCEPT !.isLoading = TRUE], "user", content)

\* The catch and finally blocks of sendMessage.
CatchFinally(s, message, content) ==
    [showError(hideTypingIndicator(s), message, TRUE, content)
        EXCEPT !.isLoading = FALSE]

\* A finally block that leaves isLoading as it is.
Finally_Keeps(s) == s

\* The try block's end and the finally block.
Finally(s) == [s EXCEPT !.isLoading = FALSE]

\* ------------------------------------------------------------- user events

\* The 'input' listener of the text box.
InputEvent(t) ==
    /\ Quiescent
    /\ inputValue' = t
    /\ ev' = Event("input", 0)
    /\ UNCHANGED <<conversationId, messages, messageDivs, isLoading, lastQuery, storage, errorDivs,
                   typingIndicators, calls, nsub, nextConv, nextMsg, closed, loads, invocations, now>>

\* validate with the lower bound tested by <= : a text of 5 characters is
\* turned away.
validate_Inclusive(text) ==
    IF TextLength(text) <= MinLength THEN "short"
    ELSE IF TextLength(text) > MaxLength THEN "long"
    ELSE "ok"

\* validate without the upper bound.
validate_Unbounded(text) ==
    IF TextLength(text) < MinLength THEN "short" ELSE "ok"

\* The two length checks of handleSend.
validate(text) ==
    IF TextLength(text) < MinLength THEN "short"
    ELSE IF TextLength(text) > MaxLength THEN "long"
    ELSE "ok"

\* handleSend without its isLoading check.
alreadyProcessing_Never(loading) == FALSE

\* if (this.isLoading) return;
alreadyProcessing(loading) == loading

\* handleSend with the box holding raw; op names the listener that called it.
handleSend(op, raw, L) ==
    LET text == Trim(raw)
    IN  IF validate(text) = "short" THEN
            /\ ev' = [Event(op, 0) EXCEPT !.alert = "short"]
            /\ inputValue' = raw
            /\ UNCHANGED <<conversationId, messages, messageDivs, isLoading, lastQuery,
                           storage, errorDivs, typingIndicators,
                           calls, nsub, nextConv, nextMsg, closed, loads, invocations, now>>
        ELSE IF validate(text) = "long" THEN
            /\ ev' = [Event(op, 0) EXCEPT !.alert = "long"]
            /\ inputValue' = raw
            /\ UNCHANGED <<conversationId, messages, messageDivs, isLoading, lastQuery,
                           storage, errorDivs, typingIndicators,
                           calls, nsub, nextConv, nextMsg, closed, loads, invocations, now>>
        ELSE IF alreadyProcessing(isLoading) THEN
            /\ ev' = Event(op, 0)
            /\ inputValue' = raw
            /\ UNCHANGED <<conversationId, messages, messageDivs, isLoading, lastQuery,
                           storage, errorDivs, typingIndicators,
                           calls, nsub, nextConv, nextMsg, closed, loads, invocations, now>>
        ELSE
            /\ Len(messages) < L.turns
            /\ Len(calls) < L.inflight
            /\ inputValue' = <<>>
            /\ lastQuery' = text
            /\ nsub' = nsub + 1
            /\ calls' = Append(calls, NewCall(nsub + 1, text, "handleSend", now))
            /\ Commit(SendMessageEnter(Self, text))
            /\ ev' = Event(op, nsub + 1)
            /\ UNCHANGED <<nextConv, nextMsg, closed, loads, invocations>>

\* Enter without Shift in the text box, or a click on the send button (the
\* button may be disabled, and then only the Enter key gets here).
SendEvent(L) ==
    /\ Quiescent
    /\ handleSend("send", inputValue, L)

\* A click on an example button.
ExampleClick(query, L) ==
    /\ Quiescent
    /\ handleSend("exampleClick", query, L)

\* A click on the Retry button of the notice errorDivs[n].
RetryClick(n, L) ==
    /\ Quiescent
    /\ errorDivs[n].retry
    /\ IF lastQuery # <<>> THEN
           /\ Len(messages) < L.turns
           /\ Len(calls) < L.inflight
           /\ nsub' = nsub + 1
           /\ calls' = Append(calls, NewCall(nsub + 1, lastQuery, "retry", now))
           /\ Commit(SendMessageEnter([Self EXCEPT !.errorDivs = RemoveAt(@, n)],
                                      lastQuery))
           /\ ev' = Event("retryClick", nsub + 1)
       ELSE
           /\ Commit([Self EXCEPT !.errorDivs = RemoveAt(@, n)])
           /\ ev' = Event("retryClick", 0)
           /\ UNCHANGED <<calls, nsub>>
    /\ UNCHANGED <<lastQuery, inputValue, nextConv, nextMsg, closed, loads, invocations>>

\* ------------------------------------------------------------ pollForResult

delays == <<500, 1000, 2000, 5000>>

Min(a, b) == IF a < b THEN a ELSE b

\* A schedule that doubles up to the ceiling: 500, 1000, 2000, 4000, 5000.
delayOf_Doubling(attempt) ==
    IF attempt = 0 THEN 500
    ELSE IF attempt = 1 THEN 1000
    ELSE IF attempt = 2 THEN 2000
    ELSE IF attempt = 3 THEN 4000
    ELSE 5000

\* The array read without Math.min, the ceiling reached one attempt late.
delayOf_Late(attempt) ==
    IF attempt = 0 THEN 500 ELSE delays[Min(attempt - 1, Len(delays) - 1) + 1]

\* delays[Math.min(attempt, delays.length - 1)], the array indexed from 0.
delayOf(attempt) == delays[Min(attempt, Len(delays) - 1) + 1]

\* The timeout check with > for >=.
timedOut_Late(attempt) == attempt > maxAttempts

\* The first lines of pollForResult(messageId, attempt): the timeout check.
timedOut(attempt) == attempt >= maxAttempts

\* pollForResult(messageId, attempt) up to its setTimeout.
StartTimer(call, messageId, attempt) ==
    [call EXCEPT !.pc = "waiting", !.request = NoRequest, !.messageId = messageId,
                 !.attempt = attempt, !.delay = delayOf(attempt)]

\* The Error thrown for a FAILED message.
errorMessage(result) ==
    IF result.error = None THEN MsgQueryFailed
    ELSE LET e == the(result.error)
         IN  IF e.type = "object" /\ e.error # <<>> THEN e.error
             ELSE IF e.type = "string" THEN
                    (IF e.value # <<>> THEN e.value ELSE MsgQueryFailed)
             ELSE e.json

\* A status that is not known ends the polling as FAILED does.
classify_UnknownFatal(status) ==
    IF status \in {"EXECUTING", "FILTERING_CONTEXT", "QUERY_RESULT_EXPIRED"}
    THEN "poll-again"
    ELSE IF status = "COMPLETED" THEN "completed"
    ELSE "failed"

\* COMPLETED is taken for a status that is not known.
classify_CompletedUnknown(status) ==
    IF status = "FAILED" THEN "failed" ELSE "poll-again"

\* What pollForResult does with the status of a poll-result response.
classify(status) ==
    IF status \in {"EXECUTING", "FILTERING_CONTEXT", "QUERY_RESULT_EXPIRED"}
    THEN "poll-again"
    ELSE IF status = "COMPLETED" THEN "completed"
    ELSE IF status = "FAILED" THEN "failed"
    ELSE "poll-again"

\* ---------------------------------------------------- the calls, continued

\* An error after which the call neither returns nor goes on.
ReturnError_Hangs(i, op, resp, message, response) ==
    /\ calls' = [calls EXCEPT ![i].pc = "hung"]
    /\ ev' = [Event(op, calls[i].id) EXCEPT !.resp = resp, !.response = response]
    /\ UNCHANGED <<conversationId, messages, messageDivs, isLoading, storage, errorDivs,
                   typingIndicators, now>>

\* The call calls[i] returns after an error: catch, finally.
ReturnError(i, op, resp, message, response) ==
    /\ Commit(CatchFinally(Self, message, calls[i].content))
    /\ calls' = RemoveAt(calls, i)
    /\ ev' = [Event(op, calls[i].id) EXCEPT !.resp = resp, !.returned = "error",
                                             !.polls = calls[i].polls,
                                             !.response = response]

\* A conversation is started for every submission.
needsConversation_Always(cid) == TRUE

\* if (!this.conversationId)
needsConversation(cid) == cid = NULL

\* sendMessage after addMessage, to its first await.
SendMessageProceed(i) ==
    /\ calls[i].pc = "entered"
    /\ LET request ==
             IF needsConversation(conversationId)
             THEN Request("start-conversation", NULL, NULL, <<>>)
             ELSE Request("send-message", conversationId, NULL, calls[i].content)
       IN  /\ calls' = [calls EXCEPT ![i].request = request,
                                     ![i].pc = IF needsConversation(conversationId)
                                               THEN "awaitStart" ELSE "awaitSend",
                                     ![i].sends = IF needsConversation(conversationId)
                                                  THEN 0 ELSE 1]
           /\ ev' = Event("sendMessage", calls[i].id)
    /\ UNCHANGED <<conversationId, messages, messageDivs, isLoading, lastQuery, inputValue,
                   storage, errorDivs, typingIndicators, nsub,
                   nextConv, nextMsg, closed, loads, invocations, now>>

ConversationIds == <<"c1", "c2", "c3", "c4", "c5">>
MessageIds == <<"m1", "m2", "m3", "m4", "m5">>

\* The remote service starts a conversation and callAPI('start-conversation')
\* returns: conversationId is set and saved, send-message is called.
StartConversationOk(i) ==
    /\ Quiescent
    /\ calls[i].pc = "awaitStart"
    /\ LET r == callAPI(FetchSuccess([conversation_id |-> ConversationIds[nextConv + 1]]))
           s == saveState([Self EXCEPT !.conversationId = r.data.conversation_id])
           request == Request("send-message", s.conversationId, NULL, calls[i].content)
       IN  /\ ~r.threw
           /\ Commit(s)
           /\ calls' = [calls EXCEPT ![i].request = request, ![i].pc = "awaitSend",
                                     ![i].sends = @ + 1]
           /\ ev' = [Event("startResponse", calls[i].id) EXCEPT !.resp = "ok"]
    /\ nextConv' = nextConv + 1
    /\ UNCHANGED <<lastQuery, inputValue, nsub, nextMsg, closed, loads, invocations>>

\* callAPI('start-conversation') throws.
StartConversationFails(i, response) ==
    /\ Quiescent
    /\ calls[i].pc = "awaitStart"
    /\ callAPI(response).threw
    /\ ReturnError(i, "startResponse", "threw", callAPI(response).message, response)
    /\ UNCHANGED <<lastQuery, inputValue, nsub, nextConv, nextMsg, closed, loads, invocations>>

\* The remote service accepts the message and callAPI('send-message') returns:
\* the typing indicator is shown and pollForResult(messageId) is entered.
SendMessageOk(i) ==
    /\ Quiescent
    /\ calls[i].pc = "awaitSend"
    /\ LET r == callAPI(FetchSuccess([id |-> MessageIds[nextMsg + 1],
                                      status |-> "EXECUTING"]))
       IN  /\ ~r.threw
           /\ IF timedOut(0)
              THEN ReturnError(i, "sendResponse", "ok", MsgTimeout, NoResponse)
              ELSE /\ Commit(showTypingIndicator(Self))
                   /\ calls' = [calls EXCEPT
                                   ![i] = [StartTimer(@, r.data.id, 0) EXCEPT
                                              !.issuedIn = calls[i].request.conversationId]]
                   /\ ev' = [Event("sendResponse", calls[i].id) EXCEPT !.resp = "ok"]
    /\ nextMsg' = nextMsg + 1
    /\ UNCHANGED <<lastQuery, inputValue, nsub, nextConv, closed, loads, invocations>>

\* A send-message that fails is sent again.
SendMessageFails_Again(i, response) ==
    /\ Quiescent
    /\ calls[i].pc = "awaitSend"
    /\ callAPI(response).threw
    /\ ev' = [Event("sendResponse", calls[i].id) EXCEPT !.resp = "threw"]
    /\ UNCHANGED <<conversationId, messages, messageDivs, isLoading, lastQuery, inputValue,
                   storage, errorDivs, typingIndicators, calls, nsub, nextConv,
                   nextMsg, closed, loads, invocations, now>>

\* callAPI('send-message') throws.
SendMessageFails(i, response) ==
    /\ Quiescent
    /\ calls[i].pc = "awaitSend"
    /\ callAPI(response).threw
    /\ ReturnError(i, "sendResponse", "threw", callAPI(response).message, response)
    /\ UNCHANGED <<lastQuery, inputValue, nsub, nextConv, nextMsg, closed, loads, invocations>>

\* The timer of pollForResult fires: callAPI('poll-result') with the
\* conversationId the widget holds now.
TimerFires(i) ==
    /\ Quiescent
    /\ calls[i].pc = "waiting"
    /\ LET request == Request("poll-result", conversationId, calls[i].messageId, <<>>)
       IN  /\ calls' = [calls EXCEPT ![i].pc = "awaitPoll", ![i].request = request,
                                     ![i].waited = @ + calls[i].delay,
                                     ![i].polls = @ + 1]
           /\ ev' = [Event("timer", calls[i].id) EXCEPT !.polls = calls[i].polls + 1]
    /\ UNCHANGED <<conversationId, messages, messageDivs, isLoading, lastQuery, inputValue,
                   storage, errorDivs, typingIndicators, nsub,
                   nextConv, nextMsg, closed, loads, invocations, now>>

\* The polling of the message of calls[i] is over once a poll returns
\* COMPLETED or FAILED, or once its 30 attempts are used.
closes(i, status) ==
    IF status \in {"COMPLETED", "FAILED"} \/ calls[i].attempt + 1 >= maxAttempts
    THEN closed \cup {calls[i].messageId}
    ELSE closed

\* callAPI('poll-result') returns a status that is neither COMPLETED nor FAILED.
PollAgain(i, status, L) ==
    /\ Quiescent
    /\ calls[i].pc = "awaitPoll"
    /\ classify(status) = "poll-again"
    /\ calls[i].attempt < L.pending
    /\ IF timedOut(calls[i].attempt + 1)
       THEN /\ Commit(CatchFinally(Self, MsgTimeout, calls[i].content))
            /\ calls' = RemoveAt(calls, i)
            /\ ev' = [Event("pollResponse", calls[i].id) EXCEPT
                         !.resp = "again", !.status = status, !.returned = "error",
                         !.polls = calls[i].polls,
                         !.result = PollData(status, <<>>, None)]
       ELSE /\ calls' = [calls EXCEPT
                           ![i] = StartTimer(@, calls[i].messageId, calls[i].attempt + 1)]
            /\ ev' = [Event("pollResponse", calls[i].id) EXCEPT
                         !.resp = "again", !.status = status, !.polls = calls[i].polls,
                         !.result = PollData(status, <<>>, None)]
            /\ UNCHANGED <<conversationId, messages, messageDivs, isLoading, storage, errorDivs,
                           typingIndicators, now>>
    /\ UNCHANGED <<loads, invocations>>
    /\ closed' = closes(i, status)
    /\ UNCHANGED <<lastQuery, inputValue, nsub, nextConv, nextMsg>>

\* callAPI('poll-result') returns a COMPLETED message: the result is displayed.
PollCompleted(i, result) ==
    /\ Quiescent
    /\ calls[i].pc = "awaitPoll"
    /\ classify(result.status) = "completed"
    /\ LET d == displayResult(hideTypingIndicator(Self), result)
       IN  /\ Commit(IF d.threw THEN CatchFinally(d.s, d.message, calls[i].content)
                     ELSE Finally(d.s))
           /\ calls' = RemoveAt(calls, i)
           /\ ev' = [Event("pollResponse", calls[i].id) EXCEPT
                        !.resp = "completed", !.status = result.status,
                        !.returned = IF d.threw THEN "error" ELSE "displayed",
                        !.polls = calls[i].polls, !.result = result]
    /\ UNCHANGED <<loads, invocations>>
    /\ closed' = closes(i, result.status)
    /\ UNCHANGED <<lastQuery, inputValue, nsub, nextConv, nextMsg>>

\* callAPI('poll-result') returns a FAILED message.
PollFailed(i, result) ==
    /\ Quiescent
    /\ calls[i].pc = "awaitPoll"
    /\ classify(result.status) = "failed"
    /\ Commit(CatchFinally(Self, errorMessage(result), calls[i].content))
    /\ calls' = RemoveAt(calls, i)
    /\ ev' = [Event("pollResponse", calls[i].id) EXCEPT
                 !.resp = "failed", !.status = result.status, !.returned = "error",
                 !.polls = calls[i].polls, !.result = result]
    /\ UNCHANGED <<loads, invocations>>
    /\ closed' = closes(i, result.status)
    /\ UNCHANGED <<lastQuery, inputValue, nsub, nextConv, nextMsg>>

\* callAPI('poll-result') throws.
PollThrows(i, response) ==
    /\ Quiescent
    /\ calls[i].pc = "awaitPoll"
    /\ callAPI(response).threw
    /\ ReturnError(i, "pollResponse", "threw", callAPI(response).message, response)
    /\ UNCHANGED <<lastQuery, inputValue, nsub, nextConv, nextMsg, closed, loads, invocations>>

\* ------------------------------------------------------ the specification

\* A stored text that is not JSON, and the stored text null.
Garbled == [garbled |-> TRUE]
JsonNull == [null |-> TRUE]

parseTurn(t) ==
    IF Len(t) = 3 THEN Turn(t[1], t[2], t[3]) ELSE [role |-> t[1], timestamp |-> t[2]]

\* JSON.parse(saved) of the text of an object.
parse(text) ==
    [conversationId |-> IF text.conversationId[1] = "null" THEN NULL
                        ELSE text.conversationId[2],
     messages |-> [k \in 1..Len(text.messages) |-> parseTurn(text.messages[k])]]

\* this.messages.forEach(msg => ...): an element is appended for each Turn
\* in order, until msg.content.includes throws for a Turn without content.
RECURSIVE restore(_, _)
restore(divs, msgs) ==
    IF msgs = <<>> THEN divs
    ELSE IF "content" \notin DOMAIN Head(msgs) THEN divs
    ELSE restore(Append(divs, messageDiv(Head(msgs).role, Head(msgs).content)),
                 Tail(msgs))

\* loadState on what localStorage holds.  Every error is caught: the
\* SyntaxError of JSON.parse, the TypeError of null.conversationId, and the
\* TypeError thrown while the Turns are restored, which comes after the
\* assignments to conversationId and messages.
loadState(s, saved) ==
    IF saved = None THEN s
    ELSE IF "garbled" \in DOMAIN the(saved) THEN s
    ELSE IF "null" \in DOMAIN the(saved) THEN s
    ELSE [s EXCEPT !.conversationId = parse(the(saved)).conversationId,
                   !.messages = parse(the(saved)).messages,
                   !.messageDivs = restore(@, parse(the(saved)).messages)]

StoredQuestion == <<R("q", 9)>>

\* What localStorage can hold when the page loads: nothing, or the document a
\* previous page saved.
StoredDocuments ==
    { None,
      Some(stringify([conversationId |-> "c0",
                      messages |-> <<Turn("user", StoredQuestion, 1)>>])) }

\* The fields of a new GenieChat, before init().
constructor(stored) ==
    [conversationId |-> NULL, messages |-> <<>>, messageDivs |-> <<>>,
     isLoading |-> FALSE,
     storage |-> stored, errorDivs |-> <<>>, typingIndicators |-> 0, now |-> 0]

\* What localStorage can hold when something else has written to it: a text
\* that is not JSON, the text null, and a document with a Turn that has no
\* content.
DamagedDocuments ==
    { Some(Garbled), Some(JsonNull),
      Some([conversationId |-> <<"string", "c0">>,
            messages |-> << <<"user", StoredQuestion, 1>>, <<"assistant", 2>> >>]) }

\* The constructor and init(), with one of documents in localStorage.
StartWith(documents) ==
    /\ storage \in documents
    /\ LET s == loadState(constructor(storage), storage)
       IN  /\ conversationId = s.conversationId
           /\ messages = s.messages
           /\ messageDivs = s.messageDivs
           /\ isLoading = s.isLoading
           /\ errorDivs = s.errorDivs
           /\ typingIndicators = s.typingIndicators
    /\ lastQuery = <<>>
    /\ inputValue = <<>>
    /\ calls = <<>>
    /\ nsub = 0
    /\ nextConv = 0
    /\ nextMsg = 0
    /\ closed = {}
    /\ loads = 1
    /\ invocations = <<>>
    /\ now = Len(messages) + 1
    /\ ev = NoEvent

Start == StartWith(StoredDocuments)

\* The page is reloaded.  The calls of the old page, their timers and their
\* pending responses are gone with it, and so is everything the old GenieChat
\* held; a new GenieChat is constructed over what localStorage holds.  The
\* messages the old page was still polling for are polled no longer.
Reload(L) ==
    /\ Quiescent
    /\ Len(messages) >= L.reloadFrom
    /\ loads < L.loads
    /\ loads' = loads + 1
    /\ Commit([loadState(constructor(storage), storage) EXCEPT !.now = now])
    /\ lastQuery' = <<>>
    /\ inputValue' = <<>>
    /\ calls' = <<>>
    /\ closed' = closed \cup ({calls[i].messageId : i \in DOMAIN calls} \ {NULL})
    /\ ev' = Event("reload", 0)
    /\ UNCHANGED <<nsub, nextConv, nextMsg, invocations>>

Init == Start

\* What a run explores: the sendMessage invocations in it, the polls of one
\* message that the remote service answers with a status that is not
\* terminal, and the texts the user types.
Interleaved ==
    [turns |-> MaxHistory, inflight |-> MaxHistory, pending |-> MaxPending,
     texts |-> TypedQueries, failures |-> [a \in RelayActions |-> FetchFailures(a)],
     statuses |-> {"EXECUTING"},
     results |-> {PollData("COMPLETED", <<TableAttachment(Some(TwoColumns))>>, None)}]

Single ==
    [turns |-> PollingHistory, inflight |-> PollingHistory,
     pending |-> maxAttempts + 1, failures |-> [a \in RelayActions |-> FetchFailures(a)],
     statuses |-> NonTerminalStatuses,
     texts |-> ShortTexts \cup LongTexts, results |-> CompletedResults]

\* The payloads a poll-result request is answered with: a message that is
\* being worked on, a completed one, a failed one.
PollPayloads(L) ==
    {PollData(status, <<>>, None) : status \in L.statuses}
       \cup L.results \cup FailedResults

\* The user types, sends, or clicks an example.
Submits(L) ==
    \/ \E t \in L.texts : InputEvent(t)
    \/ SendEvent(L)
    \/ \E q \in ExampleQueries : ExampleClick(q, L)

\* The user clicks Retry on a notice.
Retries(L) == \E n \in DOMAIN errorDivs : RetryClick(n, L)

\* A call goes on: its timer fires, or the relay answers it.
Continues(L) ==
    \/ \E i \in DOMAIN calls : SendMessageProceed(i)
    \/ \E i \in DOMAIN calls : StartConversationOk(i)
    \/ \E i \in DOMAIN calls, response \in L.failures["start-conversation"] :
          StartConversationFails(i, response)
    \/ \E i \in DOMAIN calls : SendMessageOk(i)
    \/ \E i \in DOMAIN calls, response \in L.failures["send-message"] :
          SendMessageFails(i, response)
    \/ \E i \in DOMAIN calls : TimerFires(i)
    \/ \E i \in DOMAIN calls, result \in PollPayloads(L) :
          PollAgain(i, result.status, L)
    \/ \E i \in DOMAIN calls, result \in PollPayloads(L) : PollCompleted(i, result)
    \/ \E i \in DOMAIN calls, result \in PollPayloads(L) : PollFailed(i, result)
    \/ \E i \in DOMAIN calls, response \in L.failures["poll-result"] :
          PollThrows(i, response)

\* Submissions, retries, responses and timers in every order.
Next == Submits(Interleaved) \/ Retries(Interleaved) \/ Continues(Interleaved)

Spec == Init /\ [][Next]_vars

\* One submission and no retry, polled for as long as the code polls.
NextPolling == Submits(Single) \/ Continues(Single)

SpecPolling == Init /\ [][NextPolling]_vars

\* Submissions whose start-conversation fails, and their retries, until more
\* Turns are in the history than saveState keeps.
FloodHistory == KeepLast + 2

Flood ==
    [turns |-> FloodHistory, inflight |-> FloodCalls, pending |-> 0, texts |-> {},
     failures |-> [a \in RelayActions |-> FetchFailures(a)], statuses |-> {},
     results |-> {}]

NextFlood ==
    \/ \E query \in ExampleQueries : ExampleClick(query, Flood)
    \/ \E n \in DOMAIN errorDivs : RetryClick(n, Flood)
    \/ \E i \in DOMAIN calls : SendMessageProceed(i)
    \/ \E i \in DOMAIN calls, response \in Flood.failures["start-conversation"] :
          StartConversationFails(i, response)
    \/ \E i \in DOMAIN calls, response \in Flood.failures["send-message"] :
          SendMessageFails(i, response)

SpecFlood == Init /\ [][NextFlood]_vars

\* One submission at a time, polled for as long as the code polls, and
\* retried after it has failed or timed out.
Exhaust ==
    [turns |-> ExhaustHistory, inflight |-> 1, pending |-> maxAttempts + 1,
     texts |-> {}, failures |-> [a \in RelayActions |-> EveryFailure(a)],
     statuses |-> {"EXECUTING"},
     results |-> {PollData("COMPLETED", <<TableAttachment(Some(TwoColumns))>>, None)}]

NextExhaust ==
    \/ \E query \in ExampleQueries : ExampleClick(query, Exhaust)
    \/ Retries(Exhaust)
    \/ Continues(Exhaust)

SpecExhaust == Init /\ [][NextExhaust]_vars

\* The same, where every timer fires and every request is answered.
SpecLive == SpecExhaust /\ WF_vars(Continues(Exhaust))

\* Questions typed and sent one after the other, whose start-conversation or
\* send-message fails, and the Retry buttons of their notices.
Resubmit ==
    [turns |-> MaxHistory, inflight |-> 1, pending |-> 0,
     texts |-> TypedQueries \cup ShortTexts \cup LongTexts,
     failures |-> [a \in RelayActions |-> FetchFailures(a)], statuses |-> {},
     results |-> {}]

NextResubmit ==
    \/ \E t \in Resubmit.texts : InputEvent(t)
    \/ SendEvent(Resubmit)
    \/ Retries(Resubmit)
    \/ \E i \in DOMAIN calls : SendMessageProceed(i)
    \/ \E i \in DOMAIN calls : StartConversationOk(i)
    \/ \E i \in DOMAIN calls, response \in Resubmit.failures["start-conversation"] :
          StartConversationFails(i, response)
    \/ \E i \in DOMAIN calls, response \in Resubmit.failures["send-message"] :
          SendMessageFails(i, response)

SpecResubmit == Init /\ [][NextResubmit]_vars

\* One submission at a time, failing at start-conversation or at
\* send-message, until more Turns are in the history than saveState keeps.
Long ==
    [turns |-> FloodHistory, inflight |-> 1, pending |-> 0, texts |-> {},
     failures |-> [a \in RelayActions |-> FetchFailures(a)], statuses |-> {},
     results |-> {}]

NextLong ==
    \/ \E query \in ExampleQueries : ExampleClick(query, Long)
    \/ Retries(Long)
    \/ \E i \in DOMAIN calls : SendMessageProceed(i)
    \/ \E i \in DOMAIN calls : StartConversationOk(i)
    \/ \E i \in DOMAIN calls, response \in Long.failures["start-conversation"] :
          StartConversationFails(i, response)
    \/ \E i \in DOMAIN calls, response \in Long.failures["send-message"] :
          SendMessageFails(i, response)

SpecLong == Init /\ [][NextLong]_vars

\* SpecDisplay: the remote service answers at most DisplayPending polls of a
\* message with a status that is not terminal.
DisplayPending == 1

\* One submission, its requests refused by the remote service with 401, 403
\* or 429, or its message COMPLETED or FAILED with every kind of payload.
Display ==
    [turns |-> PollingHistory, inflight |-> 1, pending |-> DisplayPending,
     texts |-> {}, failures |-> [a \in RelayActions |-> StatusFailures(a)],
     statuses |-> {"EXECUTING"}, results |-> AttachmentResults \cup FailedDetails]

NextDisplay ==
    \/ \E query \in ExampleQueries : ExampleClick(query, Display)
    \/ Continues(Display)

SpecDisplay == Init /\ [][NextDisplay]_vars

\* A page that loads with any of the documents in localStorage, damaged ones
\* included, and the submissions made after it, one at a time.
Restore ==
    [turns |-> MaxHistory, inflight |-> 1, pending |-> MaxPending, texts |-> {},
     failures |-> [a \in RelayActions |-> FetchFailures(a)],
     statuses |-> {"EXECUTING"},
     results |-> {PollData("COMPLETED", <<TableOnly(ThreeRows)>>, None)}]

InitRestore == StartWith(StoredDocuments \cup DamagedDocuments)

NextRestore ==
    \/ \E query \in ExampleQueries : ExampleClick(query, Restore)
    \/ Retries(Restore)
    \/ Continues(Restore)

SpecRestore == InitRestore /\ [][NextRestore]_vars

\* ------------------------------------------------------------------- relay
\* The function of the relay (module.exports), invoked with a request req and
\* with env for process.env; answer is what the remote service does with the
\* request the function makes, at the time of the invocation.  A variable of
\* process.env that is not set is "".

Configured(token) == [url |-> "https://adb", token |-> token, space |-> "s1"]

Environments == {Configured("t1"), Configured("t2"), Configured("")}

\* req.body: an object, a string that is the JSON text of an object (value is
\* what JSON.parse gives for it), a string that is not JSON, or undefined.
Body(kind, value) == [kind |-> kind, value |-> value]

RelayBodies ==
    { Body("object", Request("start-conversation", NULL, NULL, <<>>)),
      Body("object", Request("send-message", "c1", NULL, ExampleQuery)),
      Body("object", Request("poll-result", "c1", "m1", <<>>)),
      Body("object", Request("delete-conversation", "c1", NULL, <<>>)),
      Body("string", Request("send-message", "c1", NULL, ExampleQuery)),
      Body("garbled", NoRequest),
      Body("undefined", NoRequest) }

\* What the remote service answers to an action when it accepts the request.
Issued(action) ==
    CASE action = "start-conversation" -> [conversation_id |-> "c1"]
      [] action = "send-message" -> [id |-> "m1", status |-> "EXECUTING"]
      [] OTHER -> PollData("COMPLETED", <<Bare>>, None)

\* The outcome of the function's fetch: it rejects, or it resolves to a
\* response that is ok or not, with a status, a text, and data when the text
\* is JSON.
NoAnswer ==
    [rejected |-> FALSE, ok |-> FALSE, status |-> "none", text |-> <<>>, data |-> None]

Answers(action) ==
    { [NoAnswer EXCEPT !.ok = TRUE, !.status = "200", !.data = Some(Issued(action))],
      [NoAnswer EXCEPT !.ok = TRUE, !.status = "200"],
      [NoAnswer EXCEPT !.status = "401", !.text = <<"Invalid", "access", "token">>],
      [NoAnswer EXCEPT !.rejected = TRUE] }

MsgMissingEnv == <<"Missing", "required", "environment", "variables.">>
MsgInvalidJson == <<"Invalid", "JSON", "in", "request", "body">>
MsgDestructure == <<"Cannot", "destructure", "property", "action", "of", "body">>
MsgUnknownAction(action) == <<"Unknown", "action:", action>>
MsgRequestFailed(url) == <<"request", "to", url, "failed">>

\* No request is answered before the try block.
answersEarly_Never(method) == FALSE

\* if (req.method === 'OPTIONS') ... if (req.method === 'GET') ...
answersEarly(method) == method \in {"OPTIONS", "GET"}

\* The body of the answer to GET.
Acknowledgement(at) ==
    [message |-> "Genie API is running", method |-> "Use POST with action parameter",
     timestamp |-> at]

\* The request of startConversation, sendMessage and pollResult.
upstreamRequest(action, env, body) ==
    [method |-> IF action = "poll-result" THEN "GET" ELSE "POST",
     url |-> <<env.url, "spaces", env.space>> \o
             (CASE action = "start-conversation" -> <<"start-conversation">>
                [] action = "send-message" ->
                     <<"conversations", body.conversationId, "messages">>
                [] OTHER -> <<"conversations", body.conversationId, "messages",
                              body.messageId>>),
     authorization |-> <<"Bearer", env.token>>,
     body |-> CASE action = "start-conversation" ->
                     Some(<<R("F", 22)>>)
                [] action = "send-message" -> Some(body.content)
                [] OTHER -> None]

\* A request that is made a second time.
forward_Again(request) == <<request, request>>

\* await fetch(url, ...): the requests made, one.
forward(request) == <<request>>

\* The Error for a response that is not ok, with the credential in it.
upstreamError_Leaks(action, answer, token) ==
    UpstreamFailed(action, answer.status, answer.text) \o <<token>>

\* throw new Error(`Failed to ...: ${response.status} ${errorText}`)
upstreamError(action, answer, token) ==
    UpstreamFailed(action, answer.status, answer.text)

\* startConversation, sendMessage and pollResult: what the handler returns or
\* throws, and the requests it has made.
handler(action, env, body, answer) ==
    [upstream |-> forward(upstreamRequest(action, env, body)),
     outcome |->
        IF answer.rejected THEN Thrown(MsgRequestFailed(env.url))
        ELSE IF ~answer.ok THEN Thrown(upstreamError(action, answer, env.token))
        ELSE IF answer.data = None THEN Thrown(MsgJsonSyntax)
        ELSE Returned(the(answer.data))]

\* module.exports: context.res and the requests made to the remote service.
\* The field type of the error body (categorizeError) is left out.
relay(req, env, answer, at) ==
    IF answersEarly(req.method) /\ req.method = "OPTIONS" THEN
        [res |-> [rejected |-> FALSE, status |-> "200", contentJson |-> TRUE,
                  parses |-> FALSE, body |-> NoBody],
         upstream |-> <<>>]
    ELSE IF answersEarly(req.method) /\ req.method = "GET" THEN
        [res |-> [rejected |-> FALSE, status |-> "200", contentJson |-> TRUE,
                  parses |-> TRUE, body |-> Acknowledgement(at)],
         upstream |-> <<>>]
    ELSE IF env.url = "" \/ env.token = "" \/ env.space = "" THEN
        [res |-> RelayFailure(MsgMissingEnv), upstream |-> <<>>]
    ELSE IF req.body.kind = "garbled" THEN
        [res |-> RelayFailure(MsgInvalidJson), upstream |-> <<>>]
    ELSE IF req.body.kind = "undefined" THEN
        [res |-> RelayFailure(MsgDestructure), upstream |-> <<>>]
    ELSE IF req.body.value.action \notin RelayActions THEN
        [res |-> RelayFailure(MsgUnknownAction(req.body.value.action)),
         upstream |-> <<>>]
    ELSE
        LET h == handler(req.body.value.action, env, req.body.value, answer)
        IN  [res |-> IF h.outcome.threw THEN RelayFailure(h.outcome.message)
                     ELSE FetchSuccess(h.outcome.data),
             upstream |-> h.upstream]

\* The relay's function is invoked and returns.  The answer of the remote
\* service is kept where a request was made to it.
Invoke(req, env, answer) ==
    LET r == relay(req, env, answer, now)
        invocation ==
            [req |-> req, env |-> env,
             answer |-> IF r.upstream = <<>> THEN NoAnswer ELSE answer,
             res |-> r.res, upstream |-> r.upstream]
    IN  /\ invocations' = SliceLast(Append(invocations, invocation), 2)
        /\ ev' = Event("relay", 0)
        /\ UNCHANGED <<conversationId, messages, messageDivs, isLoading, lastQuery,
                       inputValue, storage, errorDivs, typingIndicators, calls, nsub,
                       nextConv, nextMsg, now, closed, loads>>

\* Requests to the relay, one after the other, in every configuration: a
\* POST with each of the bodies, a GET and an OPTIONS without a body.
NextRelay ==
    \E method \in {"OPTIONS", "GET", "POST"}, body \in RelayBodies :
       /\ method = "POST" \/ body.kind = "undefined"
       /\ \E env \in Environments, answer \in Answers(body.value.action) :
             Invoke([method |-> method, body |-> body], env, answer)

SpecRelay == Init /\ [][NextRelay]_vars

\* SpecReload: the page is loaded at most MaxLoads times.
MaxLoads == 2

\* The submissions and retries of SpecFlood, and a reload of the page once
\* more Turns are in the history than saveState keeps.
Reloaded ==
    [turns |-> FloodHistory, inflight |-> FloodCalls, pending |-> 0, texts |-> {},
     failures |-> [a \in RelayActions |-> FetchFailures(a)], statuses |-> {},
     results |-> {}, reloadFrom |-> KeepLast + 1, loads |-> MaxLoads]

NextReload ==
    \/ NextFlood
    \/ Reload(Reloaded)

SpecReload == Init /\ [][NextReload]_vars

\* ------------------------------------------------------------------ claims

\* C1: at most one sendMessage invocation is in flight at any time.
C1_AtMostOneCycle == Len(calls) <= 1

\* C2: a handleSend call made while isLoading is true appends no Turn, makes
\* no call and no request, and leaves conversationId, lastQuery, the stored
\* document and the text of the input box as they are.
C2_BusyRejected ==
    [][(ev'.op \in {"send", "exampleClick"} /\ isLoading) =>
          /\ UNCHANGED <<conversationId, messages, messageDivs, isLoading, lastQuery, storage,
                         errorDivs, typingIndicators, calls, nsub, nextConv, nextMsg, closed, loads, invocations,
                         now>>
          /\ ev'.id = 0
          /\ ev'.op = "send" => inputValue' = inputValue
          /\ ev'.op = "exampleClick" => inputValue' \in ExampleQueries]_vars

\* A handleSend call on a valid text has just been turned away because a
\* submission is active.
C2_Witness ==
    /\ ev.op \in {"send", "exampleClick"}
    /\ ev.id = 0
    /\ ev.alert = "none"
    /\ isLoading
    /\ calls # <<>>

\* C3: handleSend on a text whose trimmed length is below 5 or above 1000
\* makes no call and no request, appends no Turn, does not set isLoading and
\* leaves conversationId, lastQuery and the stored document as they are; a
\* text of trimmed length 5 or 1000 is accepted when no submission is active.
C3_Validation ==
    [][ev'.op = "send" =>
          LET n == TextLength(Trim(inputValue))
          IN  /\ (n < 5 \/ n > 1000) =>
                    /\ UNCHANGED <<conversationId, messages, messageDivs, isLoading, lastQuery,
                                   storage, calls, nsub, nextConv, nextMsg, closed, loads, invocations>>
                    /\ ev'.id = 0
              /\ (n \in {5, 1000} /\ ~isLoading) =>
                    /\ Len(calls') = Len(calls) + 1
                    /\ lastQuery' = Trim(inputValue)
                    /\ isLoading'
                    /\ ev'.id # 0]_vars

\* A text of 7 characters, 4 of them between spaces, has just been turned away.
C3_Witness ==
    /\ ev.op = "send"
    /\ ev.alert = "short"
    /\ TextLength(inputValue) >= 5
    /\ TextLength(Trim(inputValue)) = 4

\* C4: an accepted submission appends exactly one user Turn, no other step
\* appends a user Turn, and the Turn is in the history and in the stored
\* document when the submission issues its first request (start-conversation
\* or send-message).
C4_UserTurnFirst ==
    [][LET users(m) == {k \in DOMAIN m : m[k].role = "user"}
           holds(m, c) == \E k \in DOMAIN m : /\ m[k].role = "user"
                                               /\ m[k].timestamp = c.turn
                                               /\ m[k].content = c.content
       IN  /\ nsub' # nsub =>
                 /\ nsub' = nsub + 1
                 /\ Len(messages') = Len(messages) + 1
                 /\ SubSeq(messages', 1, Len(messages)) = messages
                 /\ Cardinality(users(messages')) = Cardinality(users(messages)) + 1
                 /\ \E j \in DOMAIN calls' :
                       /\ calls'[j].id = nsub'
                       /\ calls'[j].request = NoRequest
                       /\ messages'[Len(messages')].timestamp = calls'[j].turn
                       /\ holds(messages', calls'[j])
                       /\ storage' # None
                       /\ holds(parse(the(storage')).messages, calls'[j])
           /\ nsub' = nsub => users(messages') = users(messages)
           /\ \A i \in DOMAIN calls : \A j \in DOMAIN calls' :
                 ( /\ calls'[j].id = calls[i].id
                   /\ calls[i].pc = "entered"
                   /\ calls'[j].request.action \in {"start-conversation", "send-message"} )
                 => /\ calls[i].request = NoRequest
                    /\ calls[i].sends = 0
                    /\ holds(messages, calls[i])
                    /\ storage # None
                    /\ holds(parse(the(storage)).messages, calls[i])]_vars

\* A submission has just issued its first request, and its user Turn is the
\* last Turn of the stored document.
C4_Witness ==
    /\ ev.op = "sendMessage"
    /\ \E i \in DOMAIN calls :
          /\ calls[i].id = ev.id
          /\ calls[i].request.action = "start-conversation"
          /\ storage # None
          /\ LET m == parse(the(storage)).messages
             IN  /\ m # <<>>
                 /\ m[Len(m)].role = "user"
                 /\ m[Len(m)].timestamp = calls[i].turn

\* C5: when start-conversation fails the submission has issued no
\* send-message and issues no further request; when send-message fails it
\* issues no poll-result; in both cases its user Turn is in the history and
\* in the stored document after the failure.
C5_FailureAborts ==
    [][\A i \in DOMAIN calls :
          ( /\ ev'.id = calls[i].id
            /\ ev'.resp = "threw"
            /\ ev'.op \in {"startResponse", "sendResponse"} )
          => LET holds(m) == \E k \in DOMAIN m : /\ m[k].role = "user"
                                                 /\ m[k].timestamp = calls[i].turn
                                                 /\ m[k].content = calls[i].content
             IN  /\ \A j \in DOMAIN calls' : calls'[j].id # calls[i].id
                 /\ calls[i].polls = 0
                 /\ ev'.op = "startResponse" => calls[i].sends = 0
                 /\ holds(messages')
                 /\ storage' # None
                 /\ holds(parse(the(storage')).messages)]_vars

\* C6: conversationId, once it is not null, keeps its value.
C6_ConversationIdFixed ==
    [][conversationId # NULL => conversationId' = conversationId]_vars

\* C7: a start-conversation request is issued only while conversationId is
\* null; a submission or retry entered while conversationId is not null
\* issues send-message with that conversationId as its first request.
C7_NoSecondStart ==
    [][/\ \A j \in DOMAIN calls' :
             ( /\ calls'[j].request.action = "start-conversation"
               /\ \A i \in DOMAIN calls :
                     calls[i].id = calls'[j].id => calls[i].request # calls'[j].request )
             => conversationId = NULL
       /\ \A i \in DOMAIN calls : \A j \in DOMAIN calls' :
             ( /\ calls'[j].id = calls[i].id
               /\ calls[i].pc = "entered"
               /\ calls'[j].pc # "entered"
               /\ conversationId # NULL )
             => /\ calls'[j].request =
                      Request("send-message", conversationId, NULL, calls[i].content)
                /\ conversationId' = conversationId]_vars

\* The retry of a submission that failed after its conversation was started
\* has just issued send-message with the conversationId of that conversation.
C7_Witness ==
    /\ ev.op = "sendMessage"
    /\ conversationId = ConversationIds[1]
    /\ nextConv = 1
    /\ \E i \in DOMAIN calls :
          /\ calls[i].id = ev.id
          /\ calls[i].via = "retry"
          /\ calls[i].request.action = "send-message"
          /\ calls[i].request.conversationId = conversationId

\* C8: a call makes at most 30 poll-result requests, at attempts 0..29; when
\* the 30th is answered with a status that is not terminal the call returns
\* with the timeout notice and isLoading is false.
C8_PollLimit ==
    /\ ev.polls <= 30
    /\ \A i \in DOMAIN calls : calls[i].polls <= 30 /\ calls[i].attempt <= 29
    /\ (ev.op = "pollResponse" /\ ev.resp = "again" /\ ev.polls = 30) =>
          /\ ev.returned = "error"
          /\ \A i \in DOMAIN calls : calls[i].id # ev.id
          /\ errorDivs # <<>>
          /\ errorDivs[Len(errorDivs)].display = DisplayTimeout
          /\ ~isLoading

\* The 30th poll-result of a call has been answered with a status that is not
\* terminal, and the call has returned.
C8_Witness ==
    /\ ev.op = "pollResponse"
    /\ ev.resp = "again"
    /\ ev.polls = 30
    /\ ev.returned = "error"
    /\ ~isLoading

\* C9: the poll-result request of attempt k is issued when a timer of
\* 500 ms (k = 0), 1000 ms (k = 1), 2000 ms (k = 2) or 5000 ms (k >= 3) has
\* fired; the delays of a call never decrease and never exceed 5000 ms.
C9_Backoff ==
    [][\A i \in DOMAIN calls : \A j \in DOMAIN calls' :
          calls'[j].id = calls[i].id =>
             LET k == calls[i].attempt
                 d == IF k = 0 THEN 500
                      ELSE IF k = 1 THEN 1000
                      ELSE IF k = 2 THEN 2000
                      ELSE 5000
             IN  /\ calls'[j].delay >= calls[i].delay
                 /\ calls'[j].delay <= 5000
                 /\ calls'[j].polls # calls[i].polls =>
                       /\ calls[i].pc = "waiting"
                       /\ calls[i].polls = k
                       /\ calls'[j].polls = k + 1
                       /\ calls[i].delay = d
                       /\ calls'[j].waited = calls[i].waited + d
                       /\ calls'[j].request.action = "poll-result"]_vars

\* The poll-result request of attempt 3 has just been issued, after a timer
\* of 5000 ms.
C9_Witness ==
    /\ ev.op = "timer"
    /\ \E i \in DOMAIN calls :
          /\ calls[i].id = ev.id
          /\ calls[i].pc = "awaitPoll"
          /\ calls[i].attempt = 3
          /\ calls[i].delay = 5000
          /\ calls[i].polls = 4

\* C10 as stated: when the timer of attempt k is set, 3 <= k < 30, the timers
\* of the call that have fired add up to 1500 + 5000 * (k - 3) ms.
C10_CumulativeAsStated ==
    \A i \in DOMAIN calls :
       (calls[i].pc = "waiting" /\ calls[i].attempt >= 3 /\ calls[i].attempt < 30)
       => calls[i].waited = 1500 + 5000 * (calls[i].attempt - 3)

\* C10: when the timer of attempt k is set, 3 <= k < 30, the timers of the
\* call that have fired (those of attempts 0 .. k-1) add up to
\* 3500 + 5000 * (k - 3) ms.
C10_Cumulative ==
    \A i \in DOMAIN calls :
       (calls[i].pc = "waiting" /\ calls[i].attempt >= 3 /\ calls[i].attempt < 30)
       => calls[i].waited = 3500 + 5000 * (calls[i].attempt - 3)

\* The timer of attempt 29, the last one, is set.
C10_Witness ==
    \E i \in DOMAIN calls :
       /\ calls[i].pc = "waiting"
       /\ calls[i].attempt = 29
       /\ calls[i].waited = 133500

\* C11: the timers of one call that have fired add up to at most 60000 ms.
C11_Budget == \A i \in DOMAIN calls : calls[i].waited <= 60000

\* C12: a poll-result payload whose status is neither COMPLETED nor FAILED
\* (a missing status included) makes the call enter the next attempt, which
\* sets its timer or, for attempt 30, ends in the timeout notice; COMPLETED
\* ends the call in displayResult; FAILED ends the call with an error notice
\* and no new Turn.
C12_Classification ==
    [][\A i \in DOMAIN calls :
          (ev'.op = "pollResponse" /\ ev'.id = calls[i].id /\ ev'.resp # "threw") =>
             LET gone == \A j \in DOMAIN calls' : calls'[j].id # calls[i].id
             IN  /\ calls[i].pc = "awaitPoll"
                 /\ ev'.status \notin {"COMPLETED", "FAILED"} =>
                       IF calls[i].attempt + 1 < 30
                       THEN /\ ev'.returned = "none"
                            /\ errorDivs' = errorDivs
                            /\ messages' = messages
                            /\ \E j \in DOMAIN calls' :
                                  /\ calls'[j].id = calls[i].id
                                  /\ calls'[j].pc = "waiting"
                                  /\ calls'[j].attempt = calls[i].attempt + 1
                                  /\ calls'[j].messageId = calls[i].messageId
                       ELSE /\ gone
                            /\ ev'.returned = "error"
                            /\ errorDivs'[Len(errorDivs')].display = DisplayTimeout
                 /\ ev'.status = "COMPLETED" =>
                       /\ gone
                       /\ ev'.resp = "completed"
                       /\ ev'.returned \in {"displayed", "error"}
                       /\ ev'.returned = "displayed" =>
                             /\ Len(messages') > Len(messages)
                             /\ messages'[Len(messages')].role = "assistant"
                             /\ errorDivs' = errorDivs
                 /\ ev'.status = "FAILED" =>
                       /\ gone
                       /\ ev'.returned = "error"
                       /\ messages' = messages
                       /\ Len(errorDivs') = Len(errorDivs) + 1]_vars

\* A poll has been answered with a status the code does not know, or with no
\* status, and the call has set the timer of its next attempt.
C12_Witness ==
    /\ ev.op = "pollResponse"
    /\ ev.status \in {"PENDING", NULL}
    /\ ev.returned = "none"
    /\ \E i \in DOMAIN calls :
          calls[i].id = ev.id /\ calls[i].pc = "waiting" /\ calls[i].attempt = 2

\* C13: no call holds, and no poll-result request names, a message whose
\* polling has returned COMPLETED or FAILED or has used its 30 attempts.
C13_TerminalAbsorbing ==
    \A i \in DOMAIN calls :
       /\ calls[i].messageId \notin closed
       /\ calls[i].request.action = "poll-result" =>
             calls[i].request.messageId \notin closed

\* The polling of a message has ended with an error notice, the user has
\* clicked Retry, and the new call polls its own message.
C13_Witness ==
    /\ MessageIds[1] \in closed
    /\ \E i \in DOMAIN calls :
          /\ calls[i].via = "retry"
          /\ calls[i].request.action = "poll-result"
          /\ calls[i].request.messageId = MessageIds[2]

\* C14: the step in which a call returns leaves isLoading false, and when no
\* call is in flight isLoading is false and no typing indicator is shown.
C14_PendingCleared ==
    /\ ev.returned # "none" => ~isLoading
    /\ calls = <<>> => (~isLoading /\ typingIndicators = 0)

\* A call has displayed its result and no call is in flight.
C14_Witness ==
    /\ ev.returned = "displayed"
    /\ calls = <<>>
    /\ nsub >= 2
    /\ errorDivs # <<>>

\* C15: when every timer fires and every request is answered, a call in
\* flight leads to a state in which it has returned, with an assistant Turn
\* appended or with an error notice, and isLoading is false.
C15_Terminates ==
    \A n \in 1..ExhaustHistory :
       (\E i \in DOMAIN calls : calls[i].id = n)
       ~> ( /\ ev.id = n
            /\ \A i \in DOMAIN calls : calls[i].id # n
            /\ ev.returned \in {"displayed", "error"}
            /\ ev.returned = "displayed" => messages[Len(messages)].role = "assistant"
            /\ ev.returned = "error" => errorDivs # <<>>
            /\ ~isLoading )

\* The retry of a failed submission has returned, its result displayed.
C15_Witness ==
    /\ ev.id = 2
    /\ ev.returned = "displayed"
    /\ calls = <<>>
    /\ ~isLoading

\* C16: when a request of a call fails the call returns in that step, no
\* request is issued by any call in that step, and the identifier of the call
\* is never used again; a call is started only by the send listener, an
\* example button or a Retry button.
C16_NoAutomaticRetry ==
    [][/\ \A i \in DOMAIN calls :
             (ev'.id = calls[i].id /\ ev'.resp = "threw") =>
                /\ calls[i].request.action \in RelayActions
                /\ ev'.returned = "error"
                /\ nsub' = nsub
                /\ Len(calls') = Len(calls) - 1
                /\ \A j \in DOMAIN calls' :
                      /\ calls'[j].id # calls[i].id
                      /\ \E k \in DOMAIN calls : calls[k] = calls'[j]
       /\ nsub' # nsub =>
             /\ ev'.op \in {"send", "exampleClick", "retryClick"}
             /\ nsub' = nsub + 1
             /\ ev'.id = nsub'
       /\ \A j \in DOMAIN calls' :
             /\ calls'[j].id <= nsub'
             /\ calls'[j].id <= nsub => \E i \in DOMAIN calls : calls[i].id = calls'[j].id]_vars

\* A poll-result request could not reach the relay and the call has returned.
C16_Witness ==
    /\ ev.op = "pollResponse"
    /\ ev.resp = "threw"
    /\ ev.returned = "error"
    /\ calls = <<>>
    /\ errorDivs # <<>>
    /\ errorDivs[Len(errorDivs)].display = DisplayNetwork

\* C17: a call that ends in a failure (a request that fails, a FAILED
\* message, the timeout, a result that cannot be displayed) appends one
\* notice, with a Retry button; no other step appends a notice, and a text
\* that is turned away raises an alert and no notice.
C17_OneNotice ==
    [][/\ ( \/ ev'.resp \in {"threw", "failed"}
            \/ (ev'.resp = "again" /\ ev'.polls = 30) ) => ev'.returned = "error"
       /\ ev'.returned = "error" =>
             /\ Len(errorDivs') = Len(errorDivs) + 1
             /\ SubSeq(errorDivs', 1, Len(errorDivs)) = errorDivs
             /\ errorDivs'[Len(errorDivs')].retry
       /\ ev'.returned # "error" => Len(errorDivs') <= Len(errorDivs)
       /\ ev'.alert # "none" => (errorDivs' = errorDivs /\ ev'.id = 0)]_vars

\* A FAILED message has ended a call with the only notice on screen.
C17_Witness ==
    /\ ev.resp = "failed"
    /\ ev.returned = "error"
    /\ Len(errorDivs) = 1
    /\ errorDivs[1].retry
    /\ errorDivs[1].display = DisplaySql

\* C18: a click on the Retry button of a notice starts a call with the text
\* of the submission that raised that notice.
C18_RetryOwnText ==
    [][(ev'.op = "retryClick" /\ ev'.id # 0) =>
          \E n \in DOMAIN errorDivs :
             /\ errorDivs' = RemoveAt(errorDivs, n)
             /\ calls'[Len(calls')].id = ev'.id
             /\ calls'[Len(calls')].content = errorDivs[n].query]_vars

\* C19: saveState followed by loadState in a new instance gives the
\* conversationId of the saved instance and, in order, the last 20 Turns of
\* its history with their role, content and timestamp.
C19_RoundTrip ==
    LET saved == saveState(Self).storage
        fresh == loadState(constructor(saved), saved)
        n == Len(fresh.messages)
        from == Len(messages) - n
    IN  /\ fresh.conversationId = conversationId
        /\ n = IF Len(messages) < 20 THEN Len(messages) ELSE 20
        /\ \A k \in 1..n :
              /\ fresh.messages[k].role = messages[from + k].role
              /\ fresh.messages[k].content = messages[from + k].content
              /\ fresh.messages[k].timestamp = messages[from + k].timestamp

\* A conversation has been started and the history holds more than 20 Turns.
C19_Witness ==
    /\ Len(messages) > 20
    /\ conversationId = ConversationIds[1]
    /\ Len(loadState(constructor(storage), storage).messages) = 20

\* C20: in every state between two event-loop turns the stored document is
\* the conversationId and the last 20 Turns of the instance; nothing is
\* stored only while the instance has no conversationId and no Turn.
C20_Persisted ==
    Quiescent =>
       IF storage = None THEN conversationId = NULL /\ messages = <<>>
       ELSE storage = Some(stringify([conversationId |-> conversationId,
                                      messages |-> SubSeq(messages,
                                                     IF Len(messages) > 20
                                                     THEN Len(messages) - 19 ELSE 1,
                                                     Len(messages))]))

\* A conversation has just been started while the history holds more than 20
\* Turns, and a call awaits the answer to its send-message.
C20_Witness ==
    /\ ev.op = "startResponse"
    /\ ev.resp = "ok"
    /\ Len(messages) > 20
    /\ conversationId # NULL
    /\ \E i \in DOMAIN calls : calls[i].pc = "awaitSend"

\* C21: neither the history of the instance nor the stored document holds
\* more than 20 Turns, and the Turns of the stored document are the last
\* Turns of the history, in its order.
C21_HistoryBounded ==
    /\ Len(messages) <= 20
    /\ storage # None =>
          LET m == parse(the(storage)).messages
          IN  /\ Len(m) <= 20
              /\ Len(m) <= Len(messages)
              /\ m = SubSeq(messages, Len(messages) - Len(m) + 1, Len(messages))

\* C22: after startup on a stored value that is missing, is not JSON, or is
\* not a document of Turns with role, content and timestamp, the instance
\* has no conversationId, an empty history and no message element.
C22_DamagedIsEmpty ==
    LET wellFormed ==
           /\ storage # None
           /\ "garbled" \notin DOMAIN the(storage)
           /\ "null" \notin DOMAIN the(storage)
           /\ \A k \in DOMAIN the(storage).messages : Len(the(storage).messages[k]) = 3
    IN  (ev.op = "init" /\ ~wellFormed) =>
           /\ conversationId = NULL
           /\ messages = <<>>
           /\ messageDivs = <<>>

\* C23: a call issues start-conversation only as its first request and while
\* conversationId is null, send-message once and before any poll-result, and
\* poll-result only after send-message; when its poll-result is answered
\* COMPLETED with a tabular block of n >= 1 rows after k answers that were
\* not terminal, it has issued one send-message and k + 1 poll-result
\* requests, and it appends a table Turn of n rows in the order of the
\* block, which is the last Turn when the attachment holds nothing else.
C23_TableRun ==
    [][/\ \A i \in DOMAIN calls : \A j \in DOMAIN calls' :
             (calls'[j].id = calls[i].id /\ calls'[j].request # calls[i].request) =>
                /\ calls'[j].request.action = "start-conversation" =>
                      /\ calls[i].pc = "entered"
                      /\ conversationId = NULL
                      /\ calls'[j].sends = 0
                      /\ calls'[j].polls = 0
                /\ calls'[j].request.action = "send-message" =>
                      /\ calls[i].sends = 0
                      /\ calls'[j].sends = 1
                      /\ calls'[j].polls = 0
                /\ calls'[j].request.action = "poll-result" =>
                      /\ calls[i].sends = 1
                      /\ calls'[j].sends = 1
                      /\ calls'[j].polls = calls[i].polls + 1
       /\ \A i \in DOMAIN calls :
             LET result == ev'.result
                 attachment == result.attachments[1]
                 block == the(the(attachment.query).query_result)
                 rows == the(block.data_array)
                 tabular == /\ Len(result.attachments) > 0
                            /\ attachment.query # None
                            /\ the(attachment.query).query_result # None
                            /\ block.data_array # None
                            /\ Len(rows) >= 1
                            /\ block.schema # None
                            /\ the(block.schema).columns # None
                            /\ \A r \in DOMAIN rows :
                                  Len(rows[r]) <= Len(the(the(block.schema).columns))
                 alone == /\ attachment.text = None
                          /\ the(attachment.query).query = None
                 k == calls[i].attempt
                 table == messages'[Len(messages) + 1]
             IN  ( /\ ev'.op = "pollResponse"
                   /\ ev'.id = calls[i].id
                   /\ ev'.status = "COMPLETED"
                   /\ tabular ) =>
                    /\ k >= 0 /\ k < 30
                    /\ calls[i].sends = 1
                    /\ calls[i].polls = k + 1
                    /\ ev'.returned = "displayed"
                    /\ \A j \in DOMAIN calls' : calls'[j].id # calls[i].id
                    /\ Len(messages') > Len(messages)
                    /\ SubSeq(messages', 1, Len(messages)) = messages
                    /\ table.role = "assistant"
                    /\ "tbody" \in DOMAIN table.content
                    /\ Len(table.content.tbody) = Len(rows)
                    /\ \A r \in DOMAIN rows : table.content.tbody[r] = tableRow(rows[r])
                    /\ alone => Len(messages') = Len(messages) + 1]_vars

\* The 30th poll-result of a call has been answered COMPLETED with a table of
\* three rows, and the table is the last Turn.
C23_Witness ==
    /\ ev.op = "pollResponse"
    /\ ev.status = "COMPLETED"
    /\ ev.returned = "displayed"
    /\ ev.polls = 30
    /\ messages # <<>>
    /\ messages[Len(messages)].role = "assistant"
    /\ "tbody" \in DOMAIN messages[Len(messages)].content
    /\ Len(messages[Len(messages)].content.tbody) = 3

\* C24: when a poll-result is answered COMPLETED with an attachment that
\* holds a narrative, no tabular block and no generated query, the call
\* appends exactly one Turn, an assistant Turn that holds the narrative.
C24_NarrativeOnly ==
    [][LET attachment == ev'.result.attachments[1]
       IN  ( /\ ev'.op = "pollResponse"
             /\ ev'.status = "COMPLETED"
             /\ Len(ev'.result.attachments) > 0
             /\ attachment.query = None
             /\ attachment.text # None
             /\ the(attachment.text).content # None
             /\ the(the(attachment.text).content) # <<>> ) =>
              /\ ev'.returned = "displayed"
              /\ Len(messages') = Len(messages) + 1
              /\ messages'[Len(messages')].role = "assistant"
              /\ "text" \in DOMAIN messages'[Len(messages')].content
              /\ messages'[Len(messages')].content.text =
                    the(the(attachment.text).content)]_vars

\* C25: a call that displays a COMPLETED message appends a "no data" notice
\* only if the payload holds no tabular block with a row, no narrative and no
\* generated query.
C25_NoDataOnlyIfEmpty ==
    [][LET result == ev'.result
           attachment == result.attachments[1]
           hasRows == /\ attachment.query # None
                      /\ the(attachment.query).query_result # None
                      /\ the(the(attachment.query).query_result).data_array # None
                      /\ the(the(the(attachment.query).query_result).data_array) # <<>>
           hasNarrative == /\ attachment.text # None
                           /\ the(attachment.text).content # None
                           /\ the(the(attachment.text).content) # <<>>
           hasQuery == /\ attachment.query # None
                       /\ the(attachment.query).query # None
                       /\ the(the(attachment.query).query) # <<>>
           noticed == \E k \in (Len(messages) + 1)..Len(messages') :
                         "notice" \in DOMAIN messages'[k].content
       IN  (ev'.op = "pollResponse" /\ ev'.returned = "displayed" /\ noticed) =>
              \/ Len(result.attachments) = 0
              \/ (~hasRows /\ ~hasNarrative /\ ~hasQuery)]_vars

\* C26: no element of an assistant Turn whose content was assigned to
\* innerHTML holds a '<', '>' or '&' that came from the remote service: not
\* in a narrative, a column name, a cell or the generated query.
C26_Escaped ==
    \A d \in DOMAIN messageDivs :
       LET content == messageDivs[d].content
           markup == {"<", ">", "&"}
           clean(chars) == \A k \in DOMAIN chars : chars[k] \notin markup
       IN  (messageDivs[d].role = "assistant" /\ messageDivs[d].via = "innerHTML") =>
              /\ "text" \in DOMAIN content => clean(content.text)
              /\ "sql" \in DOMAIN content => clean(content.sql)
              /\ "tbody" \in DOMAIN content =>
                    /\ \A c \in DOMAIN content.thead : clean(content.thead[c])
                    /\ \A r \in DOMAIN content.tbody :
                          \A c \in DOMAIN content.tbody[r] : clean(content.tbody[r][c])

\* C27: in the table Turn of a COMPLETED message every null cell is the text
\* NULL, every string cell its characters and every number its decimal
\* digits, with '<', '>' and '&' of cells and of column names replaced by
\* their entities; rows, cells and columns keep the order of the payload.
C27_TableCells ==
    [][LET result == ev'.result
           attachment == result.attachments[1]
           block == the(the(attachment.query).query_result)
           rows == the(block.data_array)
           columns == the(the(block.schema).columns)
           table == messages'[Len(messages) + 1].content
           entity(ch) == IF ch = "<" THEN "&lt;"
                         ELSE IF ch = ">" THEN "&gt;"
                         ELSE IF ch = "&" THEN "&amp;"
                         ELSE ch
           escaped(chars) == [k \in DOMAIN chars |-> entity(chars[k])]
           decimal(n) == IF n = 103 THEN <<"1", "0", "3">>
                         ELSE IF n = 91 THEN <<"9", "1">>
                         ELSE <<"0">>
           shown(cell) == IF cell.type = "null" THEN <<"N", "U", "L", "L">>
                          ELSE IF cell.type = "number" THEN decimal(cell.value)
                          ELSE escaped(cell.value)
       IN  ( /\ ev'.op = "pollResponse"
             /\ ev'.returned = "displayed"
             /\ Len(result.attachments) > 0
             /\ attachment.query # None
             /\ the(attachment.query).query_result # None
             /\ block.data_array # None
             /\ rows # <<>> ) =>
              /\ Len(messages') > Len(messages)
              /\ "tbody" \in DOMAIN table
              /\ Len(table.thead) = Len(columns)
              /\ \A c \in DOMAIN columns : table.thead[c] = escaped(columns[c].name)
              /\ Len(table.tbody) = Len(rows)
              /\ \A r \in DOMAIN rows :
                    /\ Len(table.tbody[r]) = Len(rows[r])
                    /\ \A c \in DOMAIN rows[r] :
                          /\ table.tbody[r][c] = shown(rows[r][c])
                          /\ table.tbody[r][c] # <<>>]_vars

\* A table of three rows has been displayed whose last row starts with the
\* text NULL and whose second row holds an escaped '<'.
C27_Witness ==
    /\ ev.op = "pollResponse"
    /\ ev.returned = "displayed"
    /\ \E k \in DOMAIN messages :
          /\ messages[k].role = "assistant"
          /\ "tbody" \in DOMAIN messages[k].content
          /\ Len(messages[k].content.tbody) = 3
          /\ messages[k].content.tbody[3][1] = <<"N", "U", "L", "L">>
          /\ messages[k].content.tbody[2][1] = <<"M", "&lt;", "S">>
          /\ messages[k].content.tbody[1][2] = <<"1", "0", "3">>
          /\ messageDivs[k].via = "innerHTML"

\* C28: a call whose poll-result is answered FAILED returns with one notice
\* that shows the detail of the failure (error.error, else the error string,
\* else the serialized error, else 'Query failed') or the data-access or SQL
\* sentence that stands for it, and never the authentication, rate-limit,
\* timeout or network sentence.
C28_QueryFailed ==
    [][LET error == ev'.result.error
           detail == IF error = None THEN <<"Query", "failed">>
                     ELSE IF the(error).type = "object" /\ the(error).error # <<>>
                          THEN the(error).error
                     ELSE IF the(error).type = "string" /\ the(error).value # <<>>
                          THEN the(error).value
                     ELSE IF the(error).type = "string" THEN <<"Query", "failed">>
                     ELSE the(error).json
           notice == errorDivs'[Len(errorDivs')]
       IN  (ev'.op = "pollResponse" /\ ev'.status = "FAILED") =>
              /\ ev'.returned = "error"
              /\ Len(errorDivs') = Len(errorDivs) + 1
              /\ messages' = messages
              /\ notice.display \in {detail, DisplayDataAccess, DisplaySql}
              /\ notice.display \notin {DisplayAuth, DisplayRateLimit, DisplayTimeout,
                                        DisplayNetwork}]_vars

\* C29: a call whose request the remote service answers with 429 returns
\* with the rate-limit sentence, and one whose request it answers with 401
\* or 403 returns with the authentication sentence, the answer wrapped by the
\* relay in a response 500 whose error text holds the status.
C29_StatusNotice ==
    [][LET response == ev'.response
           upstream == response.body.error[5]
           notice == errorDivs'[Len(errorDivs')]
       IN  ( /\ ev'.resp = "threw"
             /\ response.status = "500"
             /\ response.contentJson
             /\ Len(response.body.error) >= 5
             /\ SubSeq(response.body.error, 1, 2) = <<"Failed", "to">> ) =>
              /\ ev'.returned = "error"
              /\ Len(errorDivs') = Len(errorDivs) + 1
              /\ upstream = "429" => notice.display = DisplayRateLimit
              /\ upstream \in {"401", "403"} => notice.display = DisplayAuth]_vars

\* C30: every send-message request, of a call made by handleSend or by a
\* Retry button, carries the text of the call, whose trimmed length is
\* between 5 and 1000, and a conversationId that is not null: one a
\* start-conversation response gave, or the one of the stored document.
C30_SendMessageRequest ==
    \A i \in DOMAIN calls :
       calls[i].request.action = "send-message" =>
          LET request == calls[i].request
              n == TextLength(Trim(request.content))
          IN  /\ request.content = calls[i].content
              /\ n >= 5
              /\ n <= 1000
              /\ request.conversationId # NULL
              /\ \/ \E k \in 1..nextConv : request.conversationId = ConversationIds[k]
                 \/ request.conversationId = "c0"

\* The Retry of a question of 1000 characters has issued send-message in the
\* conversation that the first attempt started.
C30_Witness ==
    \E i \in DOMAIN calls :
       /\ calls[i].via = "retry"
       /\ calls[i].pc = "awaitSend"
       /\ calls[i].request.action = "send-message"
       /\ TextLength(calls[i].request.content) = 1000
       /\ calls[i].request.conversationId = ConversationIds[1]

\* C36: a poll-result answered COMPLETED never ends the call with an error
\* notice, whatever parts of the payload are missing: the call returns with
\* its result displayed.
C36_CompletedNeverFails ==
    [][(ev'.op = "pollResponse" /\ ev'.status = "COMPLETED") =>
          /\ ev'.returned = "displayed"
          /\ errorDivs' = errorDivs
          /\ Len(messages') > Len(messages)]_vars


\* C37: every poll-result request carries the conversationId of the
\* send-message request that was answered with its messageId.
C37_PollInItsConversation ==
    \A i \in DOMAIN calls :
        calls[i].request.action = "poll-result" =>
            calls[i].request.conversationId = calls[i].issuedIn


\* The place of an assistant Turn in the order of displayResult, by what its
\* content is: 1 the table, 2 the narrative, 3 the generated query text, 4 a
\* "no data" notice.
rank(content) ==
    IF "thead" \in DOMAIN content THEN 1
    ELSE IF "text" \in DOMAIN content THEN 2
    ELSE IF "sql" \in DOMAIN content THEN 3
    ELSE 4

\* The Turns that the step appends to the history.
Appended == SubSeq(messages', Len(messages) + 1, Len(messages'))

\* C38: a COMPLETED payload that is displayed without error appends at least
\* one and at most three assistant Turns, in the order table, narrative,
\* generated query text, "no data" notice; a table and a notice are never both
\* appended, and the generated query text of the first attachment is a Turn of
\* its own that holds nothing else.
C38_ResultTurns ==
    [][(ev'.op = "pollResponse" /\ ev'.returned = "displayed") =>
          /\ Len(Appended) \in 1..3
          /\ messages' = messages \o Appended
          /\ \A k \in DOMAIN Appended : Appended[k].role = "assistant"
          /\ \A j, k \in DOMAIN Appended :
                j < k => rank(Appended[j].content) < rank(Appended[k].content)
          /\ ~ \E j, k \in DOMAIN Appended :
                rank(Appended[j].content) = 1 /\ rank(Appended[k].content) = 4
          /\ \A k \in DOMAIN Appended :
                "sql" \in DOMAIN Appended[k].content
                   => DOMAIN Appended[k].content = {"sql"}
          /\ \A a \in {ev'.result.attachments[1] : n \in {1} \cap DOMAIN ev'.result.attachments} :
                (a.query # None /\ the(a.query).query # None
                   /\ the(the(a.query).query) # <<>>)
                => \E k \in DOMAIN Appended :
                      Appended[k].content = [sql |-> escapeHtml(the(the(a.query).query))]]_vars

\* A narrative, the generated query text and the notice have been appended, in
\* that order, after the user Turn.
C38_Witness ==
    /\ ev.op = "pollResponse" /\ ev.returned = "displayed"
    /\ Len(messages) = 4
    /\ rank(messages[2].content) = 2
    /\ rank(messages[3].content) = 3
    /\ rank(messages[4].content) = 4

\* C39: a call that returns with an error notice has added one Turn, the user
\* Turn it appended when it was entered: no continuation of the call before
\* its return, and not the turn in which it returns with the notice, changes
\* the history or the stored history.
C39_ErrorAddsOnlyUserTurn ==
    [][/\ (ev'.op \in {"send", "exampleClick", "retryClick"} /\ ev'.id # 0) =>
             /\ Len(messages') = Len(messages) + 1
             /\ messages'[Len(messages')].role = "user"
       /\ (ev'.op \in {"sendMessage", "startResponse", "sendResponse", "timer"}
             \/ (ev'.op = "pollResponse" /\ ev'.returned # "displayed")) =>
             messages' = messages
       /\ ev'.returned = "error" =>
             /\ messages' = messages
             /\ storage' = storage]_vars

\* C40: the Turns appended for a COMPLETED payload are those appended for the
\* payload that holds its first attachment alone.
C40_FirstAttachmentOnly ==
    [][(ev'.op = "pollResponse" /\ ev'.returned = "displayed"
          /\ Len(ev'.result.attachments) > 0) =>
          messages' =
             displayResult(hideTypingIndicator(Self),
                           [ev'.result EXCEPT !.attachments = <<@[1]>>]).s.messages]_vars

\* A payload of two attachments has been displayed: the first holds nothing,
\* the second a table, and the notice is the one Turn appended.
C40_Witness ==
    /\ ev.op = "pollResponse" /\ ev.returned = "displayed"
    /\ Len(ev.result.attachments) = 2
    /\ ev.result.attachments[1] = Bare
    /\ Len(messages) = 2
    /\ messages[2].content = NoDataNotice


\* C31: a page that is reloaded while calls are in flight starts with
\* isLoading false and with no call, its history holds the user Turn of each
\* call that the reload interrupted, and no poll-result request is ever made
\* for a message that the old page was polling for.
C31_ReloadKeepsTurn ==
    [][/\ (ev'.op = "reload" /\ calls # <<>>) =>
             /\ ~isLoading'
             /\ calls' = <<>>
             /\ typingIndicators' = 0
             /\ \A i \in DOMAIN calls :
                   \E k \in DOMAIN messages' :
                      messages'[k] = Turn("user", calls[i].content, calls[i].turn)
       /\ \A i \in DOMAIN calls' :
             calls'[i].request.action = "poll-result"
                => calls'[i].request.messageId \notin closed']_vars


\* The invocations with the method POST.
Posts == {k \in DOMAIN invocations : invocations[k].req.method = "POST"}

\* C32: a GET and an OPTIONS to the relay are answered 200 and no request is
\* made to the remote service, whatever process.env holds; the answer to GET
\* carries the same message and the same usage text every time, the answer
\* to OPTIONS an empty body.
C32_ProbeOnly ==
    \A k \in DOMAIN invocations :
        LET inv == invocations[k]
        IN  inv.req.method \in {"GET", "OPTIONS"} =>
              /\ inv.res.status = "200"
              /\ inv.upstream = <<>>
              /\ inv.req.method = "GET" =>
                    /\ inv.res.parses
                    /\ inv.res.body.message = "Genie API is running"
                    /\ inv.res.body.method = "Use POST with action parameter"
              /\ inv.req.method = "OPTIONS" => ~inv.res.parses

\* A GET and an OPTIONS have been answered by a relay that has no credential.
C32_Witness ==
    /\ Len(invocations) = 2
    /\ invocations[1].req.method = "GET"
    /\ invocations[2].req.method = "OPTIONS"
    /\ invocations[1].env.token = ""
    /\ invocations[2].env.token = ""
    /\ invocations[1].res.status = "200"

\* C33: a POST is answered either 200 with success true and the data of the
\* remote service, or with a status other than 200, success false and an
\* error text that is not empty.
C33_Envelope ==
    \A k \in Posts :
        LET inv == invocations[k]
        IN  /\ inv.res.parses /\ inv.res.contentJson
            /\ IF inv.res.body.success
               THEN /\ inv.res.status = "200"
                    /\ inv.answer.data # None
                    /\ inv.res.body.data = the(inv.answer.data)
                    /\ inv.res.body.error = <<>>
               ELSE /\ inv.res.status # "200"
                    /\ inv.res.body.error # <<>>

\* A POST has been answered with the success envelope and the next one with
\* the failure envelope.
C33_Witness ==
    /\ Len(invocations) = 2
    /\ Posts = {1, 2}
    /\ invocations[1].res.body.success
    /\ invocations[1].res.status = "200"
    /\ ~invocations[2].res.body.success
    /\ invocations[2].res.status = "500"

\* C34: a POST makes at most one request to the remote service, and no
\* second one when the remote service refuses it or cannot be reached; it
\* makes none
\* and is answered with the failure envelope when its action is not known,
\* its body cannot be parsed or is missing, or process.env lacks a variable;
\* and two POSTs with the same request, the same process.env and the same
\* answer of the remote service have the same outcome.
C34_SingleCall ==
    /\ \A k \in Posts :
          LET inv == invocations[k]
          IN  /\ Len(inv.upstream) <= 1
              /\ (\/ inv.env.token = ""
                  \/ inv.req.body.kind \in {"garbled", "undefined"}
                  \/ inv.req.body.value.action \notin RelayActions) =>
                    /\ inv.upstream = <<>>
                    /\ ~inv.res.body.success
                    /\ inv.res.status # "200"
              /\ (inv.answer.rejected \/ inv.answer.status = "401") =>
                    Len(inv.upstream) = 1
    /\ \A j, k \in Posts :
          (/\ invocations[j].req = invocations[k].req
           /\ invocations[j].env = invocations[k].env
           /\ invocations[j].answer = invocations[k].answer) =>
             /\ invocations[j].res = invocations[k].res
             /\ invocations[j].upstream = invocations[k].upstream

\* The same send-message has been handled twice, the remote service has
\* refused it both times, and each time one request was made.
C34_Witness ==
    /\ Len(invocations) = 2
    /\ invocations[1] = invocations[2]
    /\ invocations[1].req.body = Body("object", Request("send-message", "c1", NULL,
                                                         ExampleQuery))
    /\ invocations[1].answer.status = "401"
    /\ Len(invocations[1].upstream) = 1
    /\ ~invocations[2].res.body.success

\* C35: the body of a request to the relay holds action, conversationId,
\* messageId and content and nothing else; the credential is in the request
\* the relay makes to the remote service and in no text of its response; and
\* the response is the one the relay gives, for the same request and the
\* same answer of the remote service, with the other credential.
C35_CredentialStaysInRelay ==
    \A k \in Posts :
        LET inv == invocations[k]
            others == {env \in Environments : env.token \notin {"", inv.env.token}}
        IN  /\ inv.req.body.kind \in {"object", "string"} =>
                  DOMAIN inv.req.body.value =
                     {"action", "conversationId", "messageId", "content"}
            /\ inv.env.token # "" =>
                  /\ \A u \in DOMAIN inv.upstream :
                        inv.upstream[u].authorization = <<"Bearer", inv.env.token>>
                  /\ ~inv.res.body.success =>
                        ~includes(inv.res.body.error, <<inv.env.token>>)
                  /\ \A env \in others :
                        relay(inv.req, env, inv.answer, now).res = inv.res

\* The same poll-result has been handled with one credential and then with
\* the other, the remote service has refused both, and the two responses are
\* the same.
C35_Witness ==
    /\ Len(invocations) = 2
    /\ invocations[1].req = invocations[2].req
    /\ invocations[1].req.body.value.action = "poll-result"
    /\ invocations[1].env.token = "t1"
    /\ invocations[2].env.token = "t2"
    /\ invocations[1].answer.status = "401"
    /\ invocations[2].answer.status = "401"
    /\ invocations[1].res = invocations[2].res
    /\ invocations[1].upstream # invocations[2].upstream

=============================================================================
